---- MODULE Spec2Model ----
(***************************************************************************)
(* Persistent rope-vector (ppar::Vector).  The heap is a partial function  *)
(* from node addresses to nodes; a handle (Ref<Node<T>>) is an address.    *)
(* The strong count of a node is the number of live handles that hold its  *)
(* address: roots of live vectors plus child fields of live internal       *)
(* nodes.  A node whose last handle is dropped is freed together with      *)
(* everything only it kept alive.                                          *)
(***************************************************************************)
EXTENDS Integers, Sequences, FiniteSets, TLC

\* ---------------------------------------------------------------- bounds
MaxLen == 3
MaxNodes == 6
MaxVal == 2
MaxOps == 4
MaxSteps == 5
MaxCrudOps == 2
MaxCap == 24
MaxSize == 8
MaxBuild == 17
MaxThin == 2
MaxLeaf == 4

\* ------------------------------------------------------ program constants
SizeOfT == 8
LEAF_CAP == 10 * 1024
REBALANCE_THRESHOLD == 30

Handles == {1, 2, 3}
\* the threads that each own a clone; the remaining handle is the original
Owners == {1, 2}
Values == 1..MaxVal
Slices == {<<1, 2>>, <<2, 1, 1>>}
\* (leaf_size, auto_rebalance) given to a constructed vector
Configs == {<<0, TRUE>>, <<4, TRUE>>, <<16, FALSE>>}

VARIABLES heap, vec, shadow, res, ret, out, prev, own, item, nops

vars == <<heap, vec, shadow, res, ret, out, prev, own, item, nops>>

\* ------------------------------------------------------- sequence helpers
Min(a, b) == IF a < b THEN a ELSE b

Reverse(s) == [i \in 1..Len(s) |-> s[Len(s) + 1 - i]]

\* data[from..to) with 0-based bounds, as a Rust slice
Slice(s, from, to) == [i \in 1..(to - from) |-> s[from + i]]

\* Vec::insert(off, val), 0-based
VecInsert(s, off, val) == Slice(s, 0, off) \o <<val>> \o Slice(s, off, Len(s))

\* Vec::remove(off), 0-based
VecRemove(s, off) == Slice(s, 0, off) \o Slice(s, off + 1, Len(s))

\* data[off] = val, 0-based
VecSet(s, off, val) == [s EXCEPT ![off + 1] = val]

\* ----------------------------------------------------------- arithmetic
\* the item count of the doc comment of set_leaf_size: (leaf_size / size_of) + 1
max_leaf_items_doc(s, cap) == (cap \div s) + 1

\* max_leaf_items::<T>(cap), s = mem::size_of::<T>()
max_leaf_items_of(s, cap) == (cap \div s) + (IF cap % s = 0 THEN 0 ELSE 1)

max_leaf_items(cap) == max_leaf_items_of(SizeOfT, cap)

RECURSIVE Halve(_, _)
\* x shifted right d times
Halve(x, d) == IF d = 0 \/ x = 0 THEN x ELSE Halve(x \div 2, d - 1)

\* 2^d >= n, for n >= 1
Pow2Covers(d, n) == Halve(n - 1, d) = 0

\* (n as f64).log2().ceil() as usize : -inf saturates to 0
Log2Ceil(n) == IF n <= 1 THEN 0 ELSE CHOOSE d \in 1..n : Pow2Covers(d, n) /\ ~Pow2Covers(d - 1, n)

\* ------------------------------------------------------------------ heap
NoVec == [len |-> 0, root |-> 0, auto_rebalance |-> FALSE, leaf_cap |-> 0]

Live(v) == v.root # 0

NodeZ(data) == [k |-> "Z", data |-> data, weight |-> 0, left |-> 0, right |-> 0]

NodeM(weight, left, right) == [k |-> "M", data |-> <<>>, weight |-> weight, left |-> left, right |-> right]

\* a fresh address: the lowest one not in use
NewId(hp) == CHOOSE i \in 1..(Cardinality(DOMAIN hp) + 1) : i \notin DOMAIN hp /\ \A j \in 1..(i - 1) : j \in DOMAIN hp

\* Ref::new(node)
RefNew(hp, node) == [hp |-> hp @@ (NewId(hp) :> node), node |-> NewId(hp)]

\* Ref::strong_count that misses the handles held by vectors
StrongCount_bad(hp, vs, n) ==
    Cardinality({m \in DOMAIN hp : hp[m].k = "M" /\ hp[m].left = n})
    + Cardinality({m \in DOMAIN hp : hp[m].k = "M" /\ hp[m].right = n})

\* Ref::strong_count: live handles holding address n
StrongCount(hp, vs, n) ==
    Cardinality({h \in DOMAIN vs : vs[h].root = n})
    + Cardinality({m \in DOMAIN hp : hp[m].k = "M" /\ hp[m].left = n})
    + Cardinality({m \in DOMAIN hp : hp[m].k = "M" /\ hp[m].right = n})

RECURSIVE Reach(_, _)
\* addresses reachable from handle n
Reach(hp, n) ==
    IF n = 0 THEN {}
    ELSE IF hp[n].k = "M" THEN {n} \cup Reach(hp, hp[n].left) \cup Reach(hp, hp[n].right)
    ELSE {n}

\* a drop that frees nothing: the replaced path stays allocated
Drop_bad(hp, vs) == hp

\* dropping every handle that went out of scope frees what no vector reaches
Drop(hp, vs) ==
    LET keep == UNION {Reach(hp, vs[h].root) : h \in DOMAIN vs}
    IN [n \in keep |-> hp[n]]

\* ----------------------------------------------------------- tree engine
\* newm that takes a copy of the right child instead of the handle to it
newm_bad(hp, left, right, weight) ==
    LET c == RefNew(hp, hp[right]) IN RefNew(c.hp, NodeM(weight, left, c.node))

newm(hp, left, right, weight) == RefNew(hp, NodeM(weight, left, right))

empty_leaf(hp) == RefNew(hp, NodeZ(<<>>))

RECURSIVE Node_len(_, _)
Node_len(hp, n) ==
    IF hp[n].k = "M" THEN hp[n].weight + Node_len(hp, hp[n].right)
    ELSE Len(hp[n].data)

RECURSIVE Node_get_bad(_, _, _)
\* Node::get taking the left child also when off = weight
Node_get_bad(hp, n, off) ==
    IF hp[n].k = "M" THEN
        IF off <= hp[n].weight THEN Node_get_bad(hp, hp[n].left, off)
        ELSE Node_get_bad(hp, hp[n].right, off - hp[n].weight)
    ELSE IF off >= 0 /\ off < Len(hp[n].data) THEN hp[n].data[off + 1] ELSE 0

RECURSIVE Node_get(_, _, _)
\* 0 stands for the index panic of data[off]
Node_get(hp, n, off) ==
    IF hp[n].k = "M" THEN
        IF off < hp[n].weight THEN Node_get(hp, hp[n].left, off)
        ELSE Node_get(hp, hp[n].right, off - hp[n].weight)
    ELSE IF off >= 0 /\ off < Len(hp[n].data) THEN hp[n].data[off + 1] ELSE 0

\* split_insert that keeps the weight of the left half as it was before the insert
split_insert_bad(hp, data, off, val) ==
    LET m == Len(data) \div 2
        ld == IF Len(data) = 0 THEN <<>> ELSE IF Len(data) = 1 THEN data ELSE Slice(data, 0, m)
        rd == IF Len(data) <= 1 THEN <<>> ELSE Slice(data, m, Len(data))
        w == Len(ld)
        nld == IF off < w THEN VecInsert(ld, off, val) ELSE ld
        nrd == IF off < w THEN rd ELSE VecInsert(rd, off - w, val)
        l == RefNew(hp, NodeZ(nld))
        r == RefNew(l.hp, NodeZ(nrd))
    IN RefNew(r.hp, NodeM(w, l.node, r.node))

\* split_insert that puts an offset at the end of the left half into the left half
split_insert_bad_side(hp, data, off, val) ==
    LET m == Len(data) \div 2
        ld == IF Len(data) = 0 THEN <<>> ELSE IF Len(data) = 1 THEN data ELSE Slice(data, 0, m)
        rd == IF Len(data) <= 1 THEN <<>> ELSE Slice(data, m, Len(data))
        w == Len(ld)
        nld == IF off <= w THEN VecInsert(ld, off, val) ELSE ld
        nrd == IF off <= w THEN rd ELSE VecInsert(rd, off - w, val)
        weight == IF off <= w THEN Len(nld) ELSE w
        l == RefNew(hp, NodeZ(nld))
        r == RefNew(l.hp, NodeZ(nrd))
    IN RefNew(r.hp, NodeM(weight, l.node, r.node))

split_insert(hp, data, off, val) ==
    LET m == Len(data) \div 2
        ld == IF Len(data) = 0 THEN <<>> ELSE IF Len(data) = 1 THEN data ELSE Slice(data, 0, m)
        rd == IF Len(data) <= 1 THEN <<>> ELSE Slice(data, m, Len(data))
        w == Len(ld)
        nld == IF off < w THEN VecInsert(ld, off, val) ELSE ld
        nrd == IF off < w THEN rd ELSE VecInsert(rd, off - w, val)
        weight == IF off < w THEN Len(nld) ELSE w
        l == RefNew(hp, NodeZ(nld))
        r == RefNew(l.hp, NodeZ(nrd))
    IN RefNew(r.hp, NodeM(weight, l.node, r.node))

\* ------------------------------------------------------------- rebalance
\* Rebalance::new
Rebalance_new(v) ==
    [n_leafs |-> v.len \div max_leaf_items(v.leaf_cap),
     auto_rebalance |-> v.auto_rebalance,
     leaf_cap |-> v.leaf_cap]

\* depth > 3 * log2(n_leafs) over the reals; log2(0) is -inf
can_rebalance(rn, depth) ==
    IF depth < REBALANCE_THRESHOLD THEN FALSE
    ELSE IF rn.n_leafs = 0 THEN TRUE
    ELSE Halve(rn.n_leafs * rn.n_leafs * rn.n_leafs, depth) = 0

\* Node::pack that drops what does not fit into self
pack_bad(data, other, cap) ==
    LET n == IF Len(data) < cap THEN Min(cap - Len(data), Len(other)) ELSE 0
    IN [data |-> data \o Slice(other, 0, n), next |-> <<>>]

\* Node::pack on leaf contents: [data |-> self afterwards, next |-> the rest]
pack(data, other, cap) ==
    LET n == IF Len(data) < cap THEN Min(cap - Len(data), Len(other)) ELSE 0
    IN [data |-> data \o Slice(other, 0, n), next |-> Slice(other, n, Len(other))]

RECURSIVE CollectLoop(_, _, _, _)
\* the loop of collect_leaf_nodes: node, stack of right children, acc; the
\* first guard has stack and acc evaluated at every turn of the loop
CollectLoop(hp, node, stack, acc) ==
    CASE Len(stack) + Len(acc) < 0 -> acc
      [] hp[node].k = "Z" /\ Len(stack) = 0 -> Append(acc, node)
      [] hp[node].k = "Z" ->
            CollectLoop(hp, stack[Len(stack)], SubSeq(stack, 1, Len(stack) - 1), Append(acc, node))
      [] OTHER -> CollectLoop(hp, hp[node].left, Append(stack, hp[node].right), acc)

RECURSIVE PackLoop(_, _, _, _, _)
\* the packing loop of collect_leaf_nodes over leafs[i..]; packed_leafs holds leaf contents
PackLoop(hp, leafs, i, packed_leafs, cap) ==
    IF i > Len(leafs) THEN packed_leafs
    ELSE IF Len(packed_leafs) = 0 THEN
        PackLoop(hp, leafs, i + 1, <<hp[leafs[i]].data>>, cap)
    ELSE
        LET p == pack(packed_leafs[Len(packed_leafs)], hp[leafs[i]].data, cap)
            upd == [packed_leafs EXCEPT ![Len(packed_leafs)] = p.data]
        IN PackLoop(hp, leafs, i + 1, IF Len(p.next) > 0 THEN Append(upd, p.next) ELSE upd, cap)

RECURSIVE RefNewAll(_, _, _, _)
\* packed_leafs.into_iter().map(Ref::new).collect()
RefNewAll(hp, datas, i, acc) ==
    IF i > Len(datas) \/ Len(acc) # i - 1 \/ acc \notin Seq(DOMAIN hp) THEN [hp |-> hp, leafs |-> acc]
    ELSE LET r == RefNew(hp, NodeZ(datas[i]))
         IN RefNewAll(r.hp, datas, i + 1, Append(acc, r.node))

collect_leaf_nodes(hp, root, packed, leaf_cap) ==
    LET leafs == CollectLoop(hp, root, <<>>, <<>>)
    IN IF packed
       THEN RefNewAll(hp, PackLoop(hp, leafs, 1, <<>>, max_leaf_items(leaf_cap)), 1, <<>>)
       ELSE [hp |-> hp, leafs |-> leafs]

\* Vec::pop leaves everything but the last element
PopRest(s) == SubSeq(s, 1, Len(s) - 1)

RECURSIVE build_bottoms_up_half(_, _, _)
\* a build that gives the left subtree half of the leaves it is handed
build_bottoms_up_half(hp, depth, leafs) ==
    LET L == Len(leafs) IN
    IF L = 0 THEN
        LET r == RefNew(hp, NodeZ(<<>>)) IN [hp |-> r.hp, node |-> r.node, n |-> 0, leafs |-> leafs]
    ELSE IF L = 1 THEN
        [hp |-> hp, node |-> leafs[L], n |-> Node_len(hp, leafs[L]), leafs |-> PopRest(leafs)]
    ELSE
        LET lt == build_bottoms_up_half(hp, depth, SubSeq(leafs, L - (L \div 2) + 1, L))
            rt == build_bottoms_up_half(lt.hp, depth, SubSeq(leafs, 1, L - (L \div 2)))
            r == RefNew(rt.hp, NodeM(lt.n, lt.node, rt.node))
        IN [hp |-> r.hp, node |-> r.node, n |-> lt.n + rt.n, leafs |-> <<>>]

RECURSIVE build_bottoms_up_bad(_, _, _)
\* build_bottoms_up that pops the right leaf of a pair before the left one
build_bottoms_up_bad(hp, depth, leafs) ==
    LET L == Len(leafs) IN
    IF depth = 0 /\ L = 0 THEN
        LET r == RefNew(hp, NodeZ(<<>>)) IN [hp |-> r.hp, node |-> r.node, n |-> 0, leafs |-> leafs]
    ELSE IF L = 1 /\ depth \in {0, 1} THEN
        [hp |-> hp, node |-> leafs[L], n |-> Node_len(hp, leafs[L]), leafs |-> PopRest(leafs)]
    ELSE IF depth = 1 /\ L >= 2 THEN
        LET left == leafs[L - 1]
            right == leafs[L]
            weight == Node_len(hp, left)
            r == RefNew(hp, NodeM(weight, left, right))
        IN [hp |-> r.hp, node |-> r.node, n |-> weight + Node_len(hp, right),
            leafs |-> PopRest(PopRest(leafs))]
    ELSE IF L \in {1, 2} THEN build_bottoms_up_bad(hp, 1, leafs)
    ELSE
        LET lt == build_bottoms_up_bad(hp, depth - 1, leafs) IN
        IF Len(lt.leafs) = 0 THEN [hp |-> lt.hp, node |-> lt.node, n |-> lt.n, leafs |-> lt.leafs]
        ELSE IF Len(lt.leafs) = 1 THEN
            LET right == lt.leafs[1]
                r == RefNew(lt.hp, NodeM(lt.n, lt.node, right))
            IN [hp |-> r.hp, node |-> r.node, n |-> lt.n + Node_len(lt.hp, right), leafs |-> <<>>]
        ELSE
            LET rt == build_bottoms_up_bad(lt.hp, depth - 1, lt.leafs)
                r == RefNew(rt.hp, NodeM(lt.n, lt.node, rt.node))
            IN [hp |-> r.hp, node |-> r.node, n |-> lt.n + rt.n, leafs |-> rt.leafs]

RECURSIVE build_bottoms_up(_, _, _)
\* leafs is the reversed vector; returns the node, its count and what is left of leafs
build_bottoms_up(hp, depth, leafs) ==
    LET L == Len(leafs) IN
    IF depth = 0 /\ L = 0 THEN
        LET r == RefNew(hp, NodeZ(<<>>)) IN [hp |-> r.hp, node |-> r.node, n |-> 0, leafs |-> leafs]
    ELSE IF L = 1 /\ depth \in {0, 1} THEN
        [hp |-> hp, node |-> leafs[L], n |-> Node_len(hp, leafs[L]), leafs |-> PopRest(leafs)]
    ELSE IF depth = 1 /\ L >= 2 THEN
        LET left == leafs[L]
            right == leafs[L - 1]
            weight == Node_len(hp, left)
            r == RefNew(hp, NodeM(weight, left, right))
        IN [hp |-> r.hp, node |-> r.node, n |-> weight + Node_len(hp, right),
            leafs |-> PopRest(PopRest(leafs))]
    ELSE IF L \in {1, 2} THEN build_bottoms_up(hp, 1, leafs)
    ELSE
        LET lt == build_bottoms_up(hp, depth - 1, leafs) IN
        IF Len(lt.leafs) = 0 THEN [hp |-> lt.hp, node |-> lt.node, n |-> lt.n, leafs |-> lt.leafs]
        ELSE IF Len(lt.leafs) = 1 THEN
            LET right == lt.leafs[1]
                r == RefNew(lt.hp, NodeM(lt.n, lt.node, right))
            IN [hp |-> r.hp, node |-> r.node, n |-> lt.n + Node_len(lt.hp, right), leafs |-> <<>>]
        ELSE
            LET rt == build_bottoms_up(lt.hp, depth - 1, lt.leafs)
                r == RefNew(rt.hp, NodeM(lt.n, lt.node, rt.node))
            IN [hp |-> r.hp, node |-> r.node, n |-> lt.n + rt.n, leafs |-> rt.leafs]

\* Node::auto_rebalance; ok is the assertion that no leaf is left over
auto_rebalance(hp, node, depth, packed, force, rn) ==
    IF force \/ (rn.auto_rebalance /\ can_rebalance(rn, depth)) THEN
        LET c == collect_leaf_nodes(hp, node, packed, rn.leaf_cap)
            d == Log2Ceil(Len(c.leafs))
            b == build_bottoms_up(c.hp, d, Reverse(c.leafs))
        IN [hp |-> b.hp, node |-> b.node, depth |-> d, ok |-> Len(b.leafs) = 0]
    ELSE [hp |-> hp, node |-> node, depth |-> depth, ok |-> TRUE]

\* --------------------------------------------------- copy-on-write engine
\* the tail of Node::insert: the node is built over the new child c and rebalanced
Node_insert_tail(built, rn) ==
    LET a == auto_rebalance(built.hp, built.node, built.depth, FALSE, FALSE, rn)
    IN [hp |-> a.hp, node |-> a.node, depth |-> a.depth, ok |-> a.ok]

Node_insert_left(hp, n, c, rn) ==
    LET r == newm(c.hp, c.node, hp[n].right, hp[n].weight + 1)
    IN Node_insert_tail([hp |-> r.hp, node |-> r.node, depth |-> c.depth + 1], rn)

Node_insert_right(hp, n, c, rn) ==
    LET r == newm(c.hp, hp[n].left, c.node, hp[n].weight)
    IN Node_insert_tail([hp |-> r.hp, node |-> r.node, depth |-> c.depth + 1], rn)

Node_insert_leaf(hp, n, off, val, rn) ==
    LET fits == Len(hp[n].data) < max_leaf_items(rn.leaf_cap)
        r == IF fits THEN RefNew(hp, NodeZ(VecInsert(hp[n].data, off, val)))
             ELSE split_insert(hp, hp[n].data, off, val)
    IN IF r.node \in DOMAIN hp THEN [hp |-> hp, node |-> n, depth |-> 0, ok |-> FALSE]
       ELSE Node_insert_tail([hp |-> r.hp, node |-> r.node, depth |-> IF fits THEN 1 ELSE 2], rn)

RECURSIVE Node_insert_bad(_, _, _, _, _)
\* Node::insert that goes left when the offset equals the weight
Node_insert_bad(hp, n, off, val, rn) ==
    CASE hp[n].k = "Z" -> Node_insert_leaf(hp, n, off, val, rn)
      [] hp[n].k = "M" /\ off <= hp[n].weight ->
            LET c == Node_insert_bad(hp, hp[n].left, off, val, rn)
            IN IF c.ok THEN Node_insert_left(hp, n, c, rn) ELSE c
      [] OTHER ->
            LET c == Node_insert_bad(hp, hp[n].right, off - hp[n].weight, val, rn)
            IN IF c.ok THEN Node_insert_right(hp, n, c, rn) ELSE c

RECURSIVE Node_insert(_, _, _, _, _)
\* returns [hp, node, depth, ok]; a failure below is passed up at once (`?`)
Node_insert(hp, n, off, val, rn) ==
    CASE hp[n].k = "Z" -> Node_insert_leaf(hp, n, off, val, rn)
      [] hp[n].k = "M" /\ off < hp[n].weight ->
            LET c == Node_insert(hp, hp[n].left, off, val, rn)
            IN IF c.ok THEN Node_insert_left(hp, n, c, rn) ELSE c
      [] OTHER ->
            LET c == Node_insert(hp, hp[n].right, off - hp[n].weight, val, rn)
            IN IF c.ok THEN Node_insert_right(hp, n, c, rn) ELSE c

RECURSIVE Node_update_bad(_, _, _, _)
\* Node::update that overwrites the element in the leaf it finds
Node_update_bad(hp, n, off, value) ==
    IF hp[n].k = "M" THEN
        IF off < hp[n].weight THEN
            LET c == Node_update_bad(hp, hp[n].left, off, value)
            IN [hp |-> c.hp, node |-> n, old |-> c.old]
        ELSE
            LET c == Node_update_bad(hp, hp[n].right, off - hp[n].weight, value)
            IN [hp |-> c.hp, node |-> n, old |-> c.old]
    ELSE
        [hp |-> [hp EXCEPT ![n].data = VecSet(@, off, value)], node |-> n, old |-> hp[n].data[off + 1]]

RECURSIVE Node_update(_, _, _, _)
\* returns [hp, node, old, ok]; ok is always TRUE here (the code returns a plain tuple), the
\* test on it makes the child's result be computed before the parent is rebuilt
Node_update(hp, n, off, value) ==
    CASE hp[n].k = "Z" ->
            LET r == RefNew(hp, NodeZ(VecSet(hp[n].data, off, value)))
            IN [hp |-> r.hp, node |-> r.node, old |-> hp[n].data[off + 1], ok |-> TRUE]
      [] hp[n].k = "M" /\ off < hp[n].weight ->
            LET c == Node_update(hp, hp[n].left, off, value)
            IN IF c.ok
               THEN LET r == newm(c.hp, c.node, hp[n].right, hp[n].weight)
                    IN [hp |-> r.hp, node |-> r.node, old |-> c.old, ok |-> TRUE]
               ELSE c
      [] OTHER ->
            LET c == Node_update(hp, hp[n].right, off - hp[n].weight, value)
            IN IF c.ok
               THEN LET r == newm(c.hp, hp[n].left, c.node, hp[n].weight)
                    IN [hp |-> r.hp, node |-> r.node, old |-> c.old, ok |-> TRUE]
               ELSE c

RECURSIVE Node_remove_bad(_, _, _)
\* Node::remove that hands back the first element of the leaf
Node_remove_bad(hp, n, off) ==
    IF hp[n].k = "M" THEN
        IF off < hp[n].weight THEN
            LET c == Node_remove_bad(hp, hp[n].left, off)
                r == newm(c.hp, c.node, hp[n].right, hp[n].weight - 1)
            IN [hp |-> r.hp, node |-> r.node, old |-> c.old]
        ELSE
            LET c == Node_remove_bad(hp, hp[n].right, off - hp[n].weight)
                r == newm(c.hp, hp[n].left, c.node, hp[n].weight)
            IN [hp |-> r.hp, node |-> r.node, old |-> c.old]
    ELSE
        LET r == RefNew(hp, NodeZ(VecRemove(hp[n].data, off)))
        IN [hp |-> r.hp, node |-> r.node, old |-> hp[n].data[1]]

RECURSIVE Node_remove(_, _, _)
\* returns [hp, node, old, ok]; ok is always TRUE here (the code returns a plain tuple), the
\* test on it makes the child's result be computed before the parent is rebuilt
Node_remove(hp, n, off) ==
    CASE hp[n].k = "Z" ->
            LET r == RefNew(hp, NodeZ(VecRemove(hp[n].data, off)))
            IN [hp |-> r.hp, node |-> r.node, old |-> hp[n].data[off + 1], ok |-> TRUE]
      [] hp[n].k = "M" /\ off < hp[n].weight ->
            LET c == Node_remove(hp, hp[n].left, off)
            IN IF c.ok
               THEN LET r == newm(c.hp, c.node, hp[n].right, hp[n].weight - 1)
                    IN [hp |-> r.hp, node |-> r.node, old |-> c.old, ok |-> TRUE]
               ELSE c
      [] OTHER ->
            LET c == Node_remove(hp, hp[n].right, off - hp[n].weight)
            IN IF c.ok
               THEN LET r == newm(c.hp, hp[n].left, c.node, hp[n].weight)
                    IN [hp |-> r.hp, node |-> r.node, old |-> c.old, ok |-> TRUE]
               ELSE c

\* ----------------------------------------------------------- in-place engine
\* Ref::get_mut that hands out the node whatever its strong count
get_mut_ok_bad(hp, vs, n) == TRUE

\* Ref::get_mut(handle) is Some iff the strong count of the node is one
get_mut_ok(hp, vs, n) == StrongCount(hp, vs, n) = 1

\* the in-place operators return [hp, depth | old, panic]; on panic hp is the
\* heap as the unwinding leaves it
RECURSIVE Node_insert_mut(_, _, _, _, _, _)
Node_insert_mut(hp, vs, n, off, val, rn) ==
    CASE hp[n].k = "M" /\ off < hp[n].weight /\ ~get_mut_ok(hp, vs, hp[n].left) ->
            [hp |-> hp, depth |-> 0, panic |-> TRUE]
      [] hp[n].k = "M" /\ off < hp[n].weight ->
            LET c == Node_insert_mut(hp, vs, hp[n].left, off, val, rn)
            IN IF c.panic THEN c
               ELSE [hp |-> [c.hp EXCEPT ![n].weight = @ + 1], depth |-> c.depth, panic |-> FALSE]
      [] hp[n].k = "M" /\ ~get_mut_ok(hp, vs, hp[n].right) ->
            [hp |-> hp, depth |-> 0, panic |-> TRUE]
      [] hp[n].k = "M" ->
            Node_insert_mut(hp, vs, hp[n].right, off - hp[n].weight, val, rn)
      [] Len(hp[n].data) < max_leaf_items(rn.leaf_cap) ->
            [hp |-> [hp EXCEPT ![n].data = VecInsert(@, off, val)], depth |-> 1, panic |-> FALSE]
      [] OTHER ->
            \* *self = Ref::try_unwrap(split_insert(..)): the new M takes the place of the leaf
            LET si == split_insert(hp, hp[n].data, off, val)
            IN [hp |-> [x \in (DOMAIN si.hp) \ {si.node} |-> IF x = n THEN si.hp[si.node] ELSE si.hp[x]],
                depth |-> 2, panic |-> FALSE]

RECURSIVE Node_update_mut(_, _, _, _, _)
Node_update_mut(hp, vs, n, off, value) ==
    IF hp[n].k = "M" THEN
        LET c == IF off < hp[n].weight THEN hp[n].left ELSE hp[n].right
            o == IF off < hp[n].weight THEN off ELSE off - hp[n].weight
        IN IF ~get_mut_ok(hp, vs, c) THEN [hp |-> hp, old |-> 0, panic |-> TRUE]
           ELSE Node_update_mut(hp, vs, c, o, value)
    ELSE [hp |-> [hp EXCEPT ![n].data = VecSet(@, off, value)], old |-> hp[n].data[off + 1], panic |-> FALSE]

RECURSIVE Node_remove_mut_bad(_, _, _, _)
\* remove_mut that lowers the weight on the way to the right as well
Node_remove_mut_bad(hp, vs, n, off) ==
    IF hp[n].k = "M" THEN
        LET hp1 == [hp EXCEPT ![n].weight = @ - 1] IN
        IF off < hp[n].weight THEN
            IF ~get_mut_ok(hp1, vs, hp[n].left) THEN [hp |-> hp1, old |-> 0, panic |-> TRUE]
            ELSE Node_remove_mut_bad(hp1, vs, hp[n].left, off)
        ELSE
            IF ~get_mut_ok(hp1, vs, hp[n].right) THEN [hp |-> hp1, old |-> 0, panic |-> TRUE]
            ELSE Node_remove_mut_bad(hp1, vs, hp[n].right, off - hp[n].weight)
    ELSE [hp |-> [hp EXCEPT ![n].data = VecRemove(@, off)], old |-> hp[n].data[off + 1], panic |-> FALSE]

RECURSIVE Node_remove_mut(_, _, _, _)
Node_remove_mut(hp, vs, n, off) ==
    IF hp[n].k = "M" THEN
        IF off < hp[n].weight THEN
            \* the weight is lowered before the child handle is unwrapped
            LET hp1 == [hp EXCEPT ![n].weight = @ - 1]
            IN IF ~get_mut_ok(hp1, vs, hp[n].left) THEN [hp |-> hp1, old |-> 0, panic |-> TRUE]
               ELSE Node_remove_mut(hp1, vs, hp[n].left, off)
        ELSE
            IF ~get_mut_ok(hp, vs, hp[n].right) THEN [hp |-> hp, old |-> 0, panic |-> TRUE]
            ELSE Node_remove_mut(hp, vs, hp[n].right, off - hp[n].weight)
    ELSE [hp |-> [hp EXCEPT ![n].data = VecRemove(@, off)], old |-> hp[n].data[off + 1], panic |-> FALSE]

\* ------------------------------------------------------------- split_off
RECURSIVE Node_split_off_bad(_, _, _, _)
\* Node::split_off that counts only what leaves the left child
Node_split_off_bad(hp, n, off, len) ==
    IF hp[n].k = "M" THEN
        IF off < hp[n].weight THEN
            LET c == Node_split_off_bad(hp, hp[n].left, off, hp[n].weight)
                root == newm(c.hp, c.root, hp[n].right, c.n)
                e == empty_leaf(root.hp)
                node == newm(e.hp, c.node, e.node, hp[n].weight - c.n)
            IN [hp |-> node.hp, node |-> node.node, root |-> root.node, n |-> c.n]
        ELSE
            LET c == Node_split_off_bad(hp, hp[n].right, off - hp[n].weight, len - hp[n].weight)
                node == newm(c.hp, hp[n].left, c.node, hp[n].weight)
            IN [hp |-> node.hp, node |-> node.node, root |-> c.root, n |-> c.n]
    ELSE IF off = 0 THEN
        LET node == empty_leaf(hp)
            root == RefNew(node.hp, NodeZ(hp[n].data))
        IN [hp |-> root.hp, node |-> node.node, root |-> root.node, n |-> Len(hp[n].data)]
    ELSE
        LET node == RefNew(hp, NodeZ(Slice(hp[n].data, 0, off)))
            root == RefNew(node.hp, NodeZ(Slice(hp[n].data, off, Len(hp[n].data))))
        IN [hp |-> root.hp, node |-> node.node, root |-> root.node, n |-> Len(hp[n].data) - off]

RECURSIVE Node_split_off_alias(_, _, _, _)
\* Node::split_off that leaves the right sibling in the tree that stays as well
Node_split_off_alias(hp, n, off, len) ==
    IF hp[n].k = "M" THEN
        IF off < hp[n].weight THEN
            LET c == Node_split_off_alias(hp, hp[n].left, off, hp[n].weight)
                root == newm(c.hp, c.root, hp[n].right, c.n)
                e == empty_leaf(root.hp)
                node == newm(e.hp, c.node, hp[n].right, hp[n].weight - c.n)
            IN [hp |-> node.hp, node |-> node.node, root |-> root.node, n |-> c.n + (len - hp[n].weight)]
        ELSE
            LET c == Node_split_off_alias(hp, hp[n].right, off - hp[n].weight, len - hp[n].weight)
                node == newm(c.hp, hp[n].left, c.node, hp[n].weight)
            IN [hp |-> node.hp, node |-> node.node, root |-> c.root, n |-> c.n]
    ELSE IF off = 0 THEN
        LET node == empty_leaf(hp)
            root == RefNew(node.hp, NodeZ(hp[n].data))
        IN [hp |-> root.hp, node |-> node.node, root |-> root.node, n |-> Len(hp[n].data)]
    ELSE
        LET node == RefNew(hp, NodeZ(Slice(hp[n].data, 0, off)))
            root == RefNew(node.hp, NodeZ(Slice(hp[n].data, off, Len(hp[n].data))))
        IN [hp |-> root.hp, node |-> node.node, root |-> root.node, n |-> Len(hp[n].data) - off]

RECURSIVE Node_split_off(_, _, _, _)
\* returns [hp, node (what stays), root (what leaves), n (elements that leave)]
Node_split_off(hp, n, off, len) ==
    IF hp[n].k = "M" THEN
        IF off < hp[n].weight THEN
            LET c == Node_split_off(hp, hp[n].left, off, hp[n].weight)
                root == newm(c.hp, c.root, hp[n].right, c.n)
                e == empty_leaf(root.hp)
                node == newm(e.hp, c.node, e.node, hp[n].weight - c.n)
            IN [hp |-> node.hp, node |-> node.node, root |-> root.node, n |-> c.n + (len - hp[n].weight)]
        ELSE
            LET c == Node_split_off(hp, hp[n].right, off - hp[n].weight, len - hp[n].weight)
                node == newm(c.hp, hp[n].left, c.node, hp[n].weight)
            IN [hp |-> node.hp, node |-> node.node, root |-> c.root, n |-> c.n]
    ELSE IF off = 0 THEN
        LET node == empty_leaf(hp)
            root == RefNew(node.hp, NodeZ(hp[n].data))
        IN [hp |-> root.hp, node |-> node.node, root |-> root.node, n |-> Len(hp[n].data)]
    ELSE
        LET node == RefNew(hp, NodeZ(Slice(hp[n].data, 0, off)))
            root == RefNew(node.hp, NodeZ(Slice(hp[n].data, off, Len(hp[n].data))))
        IN [hp |-> root.hp, node |-> node.node, root |-> root.node, n |-> Len(hp[n].data) - off]

\* ------------------------------------------------------------ construction
RECURSIVE Chunks(_, _)
\* slice.chunks(n), n > 0
Chunks(slice, n) ==
    IF Len(slice) = 0 THEN <<>>
    ELSE <<Slice(slice, 0, Min(n, Len(slice)))>> \o Chunks(Slice(slice, Min(n, Len(slice)), Len(slice)), n)

\* from_slice that builds from the leaves without reversing them first
from_slice_bad(hp, slice, leaf_size) ==
    LET n == max_leaf_items(leaf_size)
        lf == RefNewAll(hp, Chunks(slice, n), 1, <<>>)
        depth == Log2Ceil(Len(lf.leafs))
        b == build_bottoms_up(lf.hp, depth, lf.leafs)
    IN IF n = 0 THEN [hp |-> hp, v |-> NoVec, ok |-> FALSE]
       ELSE [hp |-> b.hp,
             v |-> [len |-> Len(slice), root |-> b.node, auto_rebalance |-> TRUE, leaf_cap |-> leaf_size],
             ok |-> Len(b.leafs) = 0]

\* Vector::from_slice; ok is FALSE when the call panics: slice.chunks(0)
\* panics, and so does the assertion that no leaf is left over
from_slice(hp, slice, leaf_size) ==
    LET n == max_leaf_items(leaf_size)
        lf == RefNewAll(hp, Chunks(slice, n), 1, <<>>)
        depth == Log2Ceil(Len(lf.leafs))
        b == build_bottoms_up(lf.hp, depth, Reverse(lf.leafs))
    IN IF n = 0 THEN [hp |-> hp, v |-> NoVec, ok |-> FALSE]
       ELSE [hp |-> b.hp,
             v |-> [len |-> Len(slice), root |-> b.node, auto_rebalance |-> TRUE, leaf_cap |-> leaf_size],
             ok |-> Len(b.leafs) = 0]

\* Vector::new
Vector_new(hp) ==
    LET e == empty_leaf(hp)
    IN [hp |-> e.hp, v |-> [len |-> 0, root |-> e.node, auto_rebalance |-> TRUE, leaf_cap |-> LEAF_CAP]]

\* impl From<Vector<T>> for Vec<T>
RECURSIVE ConcatData(_, _, _)
ConcatData(hp, leafs, i) ==
    IF i > Len(leafs) THEN <<>> ELSE hp[leafs[i]].data \o ConcatData(hp, leafs, i + 1)

IntoVec(hp, v) == ConcatData(hp, collect_leaf_nodes(hp, v.root, FALSE, v.leaf_cap).leafs, 1)

\* --------------------------------------------------------------- iterators
RECURSIVE build_iter_stack(_, _, _)
\* an iterator is [stack, node, off]; node 0 is None
build_iter_stack(hp, n, it) ==
    IF hp[n].k = "M" THEN build_iter_stack(hp, hp[n].left, [it EXCEPT !.stack = Append(@, hp[n].right)])
    ELSE [it EXCEPT !.node = n]

Iter_new(hp, root) == build_iter_stack(hp, root, [stack |-> <<>>, node |-> 0, off |-> 0])

\* Iter::next that gives up at a leaf without elements
Iter_next_bad(hp, it) ==
    IF it.node # 0 /\ it.off < Len(hp[it.node].data) THEN
        [it |-> [it EXCEPT !.off = @ + 1], item |-> hp[it.node].data[it.off + 1]]
    ELSE IF Len(it.stack) > 0 THEN
        LET nx == build_iter_stack(hp, it.stack[Len(it.stack)], [it EXCEPT !.stack = PopRest(@), !.off = 0])
        IN IF Len(hp[nx.node].data) > 0
           THEN [it |-> [nx EXCEPT !.off = 1], item |-> hp[nx.node].data[1]]
           ELSE [it |-> [nx EXCEPT !.stack = <<>>], item |-> 0]
    ELSE [it |-> it, item |-> 0]

RECURSIVE Iter_next(_, _)
\* returns [it, item]; item 0 is None
Iter_next(hp, it) ==
    IF it.node # 0 /\ it.off < Len(hp[it.node].data) THEN
        [it |-> [it EXCEPT !.off = @ + 1], item |-> hp[it.node].data[it.off + 1]]
    ELSE IF Len(it.stack) > 0 THEN
        Iter_next(hp, build_iter_stack(hp, it.stack[Len(it.stack)], [it EXCEPT !.stack = PopRest(@), !.off = 0]))
    ELSE [it |-> it, item |-> 0]

RECURSIVE IterCollect(_, _)
\* iter.collect(): the items up to the first None
IterCollect(hp, it) ==
    LET r == Iter_next(hp, it)
    IN IF r.item = 0 THEN <<>> ELSE <<r.item>> \o IterCollect(hp, r.it)

\* the handles an IntoIter holds keep their nodes alive next to the vectors
IntoIterHeap(hp, vs, it) ==
    LET keep == UNION ({Reach(hp, vs[h].root) : h \in DOMAIN vs}
                       \cup {Reach(hp, it.stack[i]) : i \in 1..Len(it.stack)}
                       \cup {Reach(hp, it.node)})
    IN [n \in keep |-> hp[n]]

RECURSIVE build_into_iter_stack(_, _, _)
build_into_iter_stack(hp, n, it) ==
    IF hp[n].k = "M" THEN build_into_iter_stack(hp, hp[n].left, [it EXCEPT !.stack = Append(@, hp[n].right)])
    ELSE [it EXCEPT !.node = n]

\* IntoIterator::into_iter: self is dropped when the call returns
into_iter(hp, vs, h) ==
    LET it == build_into_iter_stack(hp, vs[h].root, [stack |-> <<>>, node |-> 0, off |-> 0])
    IN [hp |-> IntoIterHeap(hp, [vs EXCEPT ![h] = NoVec], it), it |-> it]

RECURSIVE IntoIter_next(_, _, _)
\* returns [hp, it, item]; the popped handle is dropped once its children are on the stack
IntoIter_next(hp, vs, it) ==
    IF it.node # 0 /\ it.off < Len(hp[it.node].data) THEN
        [hp |-> hp, it |-> [it EXCEPT !.off = @ + 1], item |-> hp[it.node].data[it.off + 1]]
    ELSE IF Len(it.stack) > 0 THEN
        LET nx == build_into_iter_stack(hp, it.stack[Len(it.stack)], [it EXCEPT !.stack = PopRest(@), !.off = 0])
        IN IntoIter_next(IntoIterHeap(hp, vs, nx), vs, nx)
    ELSE [hp |-> hp, it |-> it, item |-> 0]

RECURSIVE IntoIterCollect(_, _, _)
IntoIterCollect(hp, vs, it) ==
    LET r == IntoIter_next(hp, vs, it)
    IN IF r.item = 0 THEN <<>> ELSE <<r.item>> \o IntoIterCollect(r.hp, vs, r.it)

\* ------------------------------------------------------------------ state
\* heap   : address -> node, the nodes some live vector reaches
\* vec    : handle name -> Vector (NoVec when the name holds nothing)
\* shadow : handle name -> the reference array kept next to the vector
\* res    : outcome of the latest call: "Ok", "IndexFail" or "Panic"
\* ret    : the element the latest call returned, 0 when it returns none
\* out    : the elements the latest iteration or conversion yielded
\* prev   : what the caller keeps of the latest split_off, remove or remove_mut
\*          that returned Ok: the call and what self showed before it; the
\*          append, insert or insert_mut that puts it back takes its place
\* own    : owner -> the locals of its call in progress (threads only)
\* nops   : number of calls made
Running == res # "Panic"

\* what the public readers len() and get(i) show of a vector
Obs(hp, v) == [len |-> v.len, elems |-> [i \in 1..v.len |-> Node_get(hp, v.root, i - 1)]]

ObsOf(len, elems) == [len |-> len, elems |-> elems]

PreOf(op, h, g, off, obs) == [op |-> op, h |-> h, g |-> g, off |-> off, obs |-> obs]

NoPre == PreOf("none", 0, 0, 0, ObsOf(0, <<>>))

\* the locals of a call: pc, the new self (v), the vector split off or being
\* appended (a) and what the reference arrays become (sh, ash)
\* the element size and the capacity of a call of max_leaf_items
Item(size, cap) == [size |-> size, cap |-> cap]

NoItem == Item(SizeOfT, 0)

Local(pc, v, a, sh, ash) == [pc |-> pc, v |-> v, a |-> a, sh |-> sh, ash |-> ash]

NoLocal == Local("idle", NoVec, NoVec, <<>>, <<>>)

\* the call op(h, g, off, value) puts back what the call kept in prev took away
PutBack(first, op, h, g, off, value) ==
    IF prev.op = first /\ prev.h = h /\ prev.g = g /\ prev.off = off /\ ret = value
    THEN PreOf(op, h, 0, off, prev.obs)
    ELSE NoPre

HasFree == \E g \in Handles : ~Live(vec[g])

LowestFree == CHOOSE g \in Handles : ~Live(vec[g]) /\ \A j \in Handles : j < g => Live(vec[j])

Init ==
    LET c == Vector_new(<<>>) IN
        /\ heap = c.hp
        /\ vec = [h \in Handles |-> IF h = 1 THEN c.v ELSE NoVec]
        /\ shadow = [h \in Handles |-> <<>>]
        /\ res = "Ok"
        /\ ret = 0
        /\ out = <<>>
        /\ prev = NoPre
        /\ own = [h \in Handles |-> NoLocal]
        /\ item = NoItem
        /\ nops = 0

\* the call returns Ok: handles out of scope are dropped
ReturnPre(hp, vs, sh, r, p) ==
    /\ res' = "Ok"
    /\ nops' = nops + 1
    /\ shadow' = sh
    /\ ret' = r
    /\ out' = <<>>
    /\ prev' = p
    /\ own' = own
    /\ item' = item
    /\ vec' = vs
    /\ heap' = Drop(hp, vs)

Return(hp, vs, sh, r) == ReturnPre(hp, vs, sh, r, NoPre)

\* the call panics: the heap stays as the unwinding leaves it
Panic(hp) ==
    /\ res' = "Panic"
    /\ ret' = 0
    /\ out' = <<>>
    /\ prev' = NoPre
    /\ nops' = nops + 1
    /\ heap' = hp
    /\ UNCHANGED <<vec, shadow, own, item>>

\* the call returns Err(IndexFail)
Fail ==
    /\ res' = "IndexFail"
    /\ ret' = 0
    /\ out' = <<>>
    /\ prev' = NoPre
    /\ nops' = nops + 1
    /\ UNCHANGED <<heap, vec, shadow, own, item>>

\* an iteration or conversion ran to its end and yielded seq
Yield(vs, sh, seq) ==
    /\ res' = "Ok"
    /\ nops' = nops + 1
    /\ shadow' = sh
    /\ ret' = 0
    /\ out' = seq
    /\ prev' = NoPre
    /\ own' = own
    /\ item' = item
    /\ vec' = vs
    /\ heap' = Drop(heap, vs)

Enabled(h) == Running /\ Live(vec[h])

LiveHandles == {h \in Handles : Live(vec[h])}

\* ------------------------------------------------------------ public calls
\* let g = Vector::from_slice(slice, Some(leaf_size)); g.set_auto_rebalance(ar)
Vector_from_slice(slice, leaf_size, ar) ==
    /\ Running
    /\ HasFree
    /\ LET g == LowestFree
           c == from_slice(heap, slice, leaf_size)
       IN IF c.ok
          THEN Return(c.hp, [vec EXCEPT ![g] = [c.v EXCEPT !.auto_rebalance = ar]],
                      [shadow EXCEPT ![g] = slice], 0)
          ELSE Panic(c.hp)

Vector_get(h, index) ==
    /\ Enabled(h)
    /\ IF index < vec[h].len
       THEN Return(heap, vec, shadow, Node_get(heap, vec[h].root, index))
       ELSE Fail

Vector_insert(h, off, value) ==
    /\ Enabled(h)
    /\ IF off <= vec[h].len THEN
           LET r == Node_insert(heap, vec[h].root, off, value, Rebalance_new(vec[h])) IN
           IF r.ok
           THEN ReturnPre(r.hp, [vec EXCEPT ![h].root = r.node, ![h].len = @ + 1],
                          [shadow EXCEPT ![h] = VecInsert(@, off, value)], 0,
                          PutBack("remove", "insert", h, 0, off, value))
           ELSE Panic(r.hp)
       ELSE Fail

Vector_insert_mut(h, off, value) ==
    /\ Enabled(h)
    /\ IF off <= vec[h].len THEN
           IF ~get_mut_ok(heap, vec, vec[h].root) THEN Panic(heap)
           ELSE
               LET rn == Rebalance_new(vec[h])
                   r == Node_insert_mut(heap, vec, vec[h].root, off, value, rn)
               IN IF r.panic THEN Panic(r.hp)
                  ELSE
                      LET a == auto_rebalance(r.hp, vec[h].root, r.depth, FALSE, FALSE, rn) IN
                      IF a.ok
                      THEN ReturnPre(a.hp, [vec EXCEPT ![h].root = a.node, ![h].len = @ + 1],
                                     [shadow EXCEPT ![h] = VecInsert(@, off, value)], 0,
                                     PutBack("remove_mut", "insert_mut", h, 0, off, value))
                      ELSE Panic(a.hp)
       ELSE Fail

Vector_update(h, off, value) ==
    /\ Enabled(h)
    /\ IF off < vec[h].len THEN
           LET r == Node_update(heap, vec[h].root, off, value)
           IN Return(r.hp, [vec EXCEPT ![h].root = r.node],
                     [shadow EXCEPT ![h] = VecSet(@, off, value)], r.old)
       ELSE Fail

\* update_mut that unwraps the root handle before it validates the offset
Vector_update_mut_bad(h, off, value) ==
    /\ Enabled(h)
    /\ IF ~get_mut_ok(heap, vec, vec[h].root) THEN Panic(heap)
       ELSE IF off < vec[h].len THEN
           LET r == Node_update_mut(heap, vec, vec[h].root, off, value)
           IN IF r.panic THEN Panic(r.hp)
              ELSE Return(r.hp, vec, [shadow EXCEPT ![h] = VecSet(@, off, value)], r.old)
       ELSE Fail

Vector_update_mut(h, off, value) ==
    /\ Enabled(h)
    /\ IF off < vec[h].len THEN
           IF ~get_mut_ok(heap, vec, vec[h].root) THEN Panic(heap)
           ELSE
               LET r == Node_update_mut(heap, vec, vec[h].root, off, value)
               IN IF r.panic THEN Panic(r.hp)
                  ELSE Return(r.hp, vec, [shadow EXCEPT ![h] = VecSet(@, off, value)], r.old)
       ELSE Fail

Vector_remove(h, off) ==
    /\ Enabled(h)
    /\ IF off < vec[h].len THEN
           LET r == Node_remove(heap, vec[h].root, off)
           IN ReturnPre(r.hp, [vec EXCEPT ![h].root = r.node, ![h].len = @ - 1],
                        [shadow EXCEPT ![h] = VecRemove(@, off)], r.old,
                        PreOf("remove", h, 0, off, Obs(heap, vec[h])))
       ELSE Fail

Vector_remove_mut(h, off) ==
    /\ Enabled(h)
    /\ IF off < vec[h].len THEN
           IF ~get_mut_ok(heap, vec, vec[h].root) THEN Panic(heap)
           ELSE
               LET r == Node_remove_mut(heap, vec, vec[h].root, off)
               IN IF r.panic THEN Panic(r.hp)
                  ELSE ReturnPre(r.hp, [vec EXCEPT ![h].len = @ - 1],
                                 [shadow EXCEPT ![h] = VecRemove(@, off)], r.old,
                                 PreOf("remove_mut", h, 0, off, Obs(heap, vec[h])))
       ELSE Fail

\* let g = h.clone()
Vector_clone(h) ==
    /\ Enabled(h)
    /\ HasFree
    /\ Return(heap, [vec EXCEPT ![LowestFree] = vec[h]], [shadow EXCEPT ![LowestFree] = shadow[h]], 0)

\* drop(h)
Vector_drop(h) ==
    /\ Enabled(h)
    /\ \E g \in Handles \ {h} : Live(vec[g])
    /\ Return(heap, [vec EXCEPT ![h] = NoVec], [shadow EXCEPT ![h] = <<>>], 0)

\* let g = h.split_off(off)
Vector_split_off(h, off) ==
    /\ Enabled(h)
    /\ HasFree
    /\ LET g == LowestFree
           v == vec[h]
       IN
       IF off > v.len THEN Fail
       ELSE IF off = v.len THEN
           LET e == empty_leaf(heap)
           IN Return(e.hp, [vec EXCEPT ![g] = [len |-> 0, root |-> e.node,
                                                auto_rebalance |-> v.auto_rebalance, leaf_cap |-> v.leaf_cap]],
                     [shadow EXCEPT ![g] = <<>>], 0)
       ELSE
           LET r == Node_split_off(heap, v.root, off, v.len)
           IN ReturnPre(r.hp,
                        [vec EXCEPT ![h].root = r.node, ![h].len = @ - r.n,
                                    ![g] = [len |-> r.n, root |-> r.root,
                                            auto_rebalance |-> v.auto_rebalance, leaf_cap |-> v.leaf_cap]],
                        [shadow EXCEPT ![h] = Slice(@, 0, off), ![g] = Slice(shadow[h], off, Len(shadow[h]))],
                        0, PreOf("split_off", h, g, off, Obs(heap, v)))

\* append that forgets to add the length of other
Vector_append_bad(h, g) ==
    /\ Enabled(h)
    /\ g # h
    /\ Live(vec[g])
    /\ LET conv == from_slice(heap, IntoVec(heap, vec[g]), vec[h].leaf_cap)
           long == vec[g].leaf_cap # vec[h].leaf_cap
           hp1 == IF long THEN conv.hp ELSE heap
           other == IF long THEN conv.v ELSE vec[g]
           root == newm(hp1, vec[h].root, other.root, vec[h].len)
       IN IF long /\ ~conv.ok THEN Panic(conv.hp)
          ELSE ReturnPre(root.hp,
                         [vec EXCEPT ![h].root = root.node, ![g] = NoVec],
                         [shadow EXCEPT ![h] = @ \o shadow[g], ![g] = <<>>], 0,
                         PutBack("split_off", "append", h, g, prev.off, 0))

\* append that joins other in front of self
Vector_append_bad_order(h, g) ==
    /\ Enabled(h)
    /\ g # h
    /\ Live(vec[g])
    /\ LET conv == from_slice(heap, IntoVec(heap, vec[g]), vec[h].leaf_cap)
           long == vec[g].leaf_cap # vec[h].leaf_cap
           hp1 == IF long THEN conv.hp ELSE heap
           other == IF long THEN conv.v ELSE vec[g]
           root == newm(hp1, other.root, vec[h].root, other.len)
       IN IF long /\ ~conv.ok THEN Panic(conv.hp)
          ELSE ReturnPre(root.hp,
                         [vec EXCEPT ![h].root = root.node, ![h].len = @ + other.len, ![g] = NoVec],
                         [shadow EXCEPT ![h] = @ \o shadow[g], ![g] = <<>>], 0,
                         PutBack("split_off", "append", h, g, prev.off, 0))

\* h.append(g): g is moved into the call
Vector_append(h, g) ==
    /\ Enabled(h)
    /\ g # h
    /\ Live(vec[g])
    /\ LET conv == from_slice(heap, IntoVec(heap, vec[g]), vec[h].leaf_cap)
           long == vec[g].leaf_cap # vec[h].leaf_cap
           hp1 == IF long THEN conv.hp ELSE heap
           other == IF long THEN conv.v ELSE vec[g]
           root == newm(hp1, vec[h].root, other.root, vec[h].len)
       IN IF long /\ ~conv.ok THEN Panic(conv.hp)
          ELSE ReturnPre(root.hp,
                         [vec EXCEPT ![h].root = root.node, ![h].len = @ + other.len, ![g] = NoVec],
                         [shadow EXCEPT ![h] = @ \o shadow[g], ![g] = <<>>], 0,
                         PutBack("split_off", "append", h, g, prev.off, 0))

\* rebalance that hangs the rebuilt tree under a new root, next to an empty leaf
Vector_rebalance_bad(h, packed) ==
    /\ Enabled(h)
    /\ HasFree
    /\ LET a == auto_rebalance(heap, vec[h].root, 0, packed, TRUE, Rebalance_new(vec[h]))
           e == empty_leaf(a.hp)
           m == newm(e.hp, a.node, e.node, vec[h].len)
       IN IF a.ok
          THEN Return(m.hp, [vec EXCEPT ![LowestFree] = [vec[h] EXCEPT !.root = m.node]],
                      [shadow EXCEPT ![LowestFree] = shadow[h]], 0)
          ELSE Panic(a.hp)

\* let g = h.rebalance(packed)
Vector_rebalance(h, packed) ==
    /\ Enabled(h)
    /\ HasFree
    /\ LET a == auto_rebalance(heap, vec[h].root, 0, packed, TRUE, Rebalance_new(vec[h]))
       IN IF a.ok
          THEN Return(a.hp, [vec EXCEPT ![LowestFree] = [vec[h] EXCEPT !.root = a.node]],
                      [shadow EXCEPT ![LowestFree] = shadow[h]], 0)
          ELSE Panic(a.hp)

\* h.iter().collect()
Vector_iter(h) ==
    /\ Enabled(h)
    /\ Yield(vec, shadow, IterCollect(heap, Iter_new(heap, vec[h].root)))

\* h.into_iter().collect(): h is moved into the call
Vector_into_iter(h) ==
    /\ Enabled(h)
    /\ LET vs == [vec EXCEPT ![h] = NoVec]
           c == into_iter(heap, vec, h)
       IN Yield(vs, [shadow EXCEPT ![h] = <<>>], IntoIterCollect(c.hp, vs, c.it))

\* Vec::from(h): h is moved into the call
Vector_into_vec(h) ==
    /\ Enabled(h)
    /\ Yield([vec EXCEPT ![h] = NoVec], [shadow EXCEPT ![h] = <<>>], IntoVec(heap, vec[h]))

\* h.set_leaf_size(leaf_size)
Vector_set_leaf_size(h, leaf_size) ==
    /\ Enabled(h)
    /\ Return(heap, [vec EXCEPT ![h].leaf_cap = leaf_size], shadow, 0)

\* the part of the state space that is explored
Within == (\A h \in Handles : vec[h].len <= MaxLen) /\ (res = "Ok" => Cardinality(DOMAIN heap) <= MaxNodes)

Call(A) == nops < MaxOps /\ A /\ Within'

Next ==
    \/ \E s \in Slices, c \in Configs : Call(Vector_from_slice(s, c[1], c[2]))
    \/ \E h \in Handles, o \in 0..MaxLen : Call(Vector_get(h, o))
    \/ \E h \in Handles, o \in 0..(MaxLen + 1), x \in Values : Call(Vector_insert(h, o, x))
    \/ \E h \in Handles, o \in 0..(MaxLen + 1), x \in Values : Call(Vector_insert_mut(h, o, x))
    \/ \E h \in Handles, o \in 0..MaxLen, x \in Values : Call(Vector_update(h, o, x))
    \/ \E h \in Handles, o \in 0..MaxLen, x \in Values : Call(Vector_update_mut(h, o, x))
    \/ \E h \in Handles, o \in 0..MaxLen : Call(Vector_remove(h, o))
    \/ \E h \in Handles, o \in 0..MaxLen : Call(Vector_remove_mut(h, o))
    \/ \E h \in Handles : Call(Vector_clone(h))
    \/ \E h \in Handles : Call(Vector_drop(h))
    \/ \E h \in Handles, o \in 0..(MaxLen + 1) : Call(Vector_split_off(h, o))
    \/ \E h, g \in Handles : Call(Vector_append(h, g))
    \/ \E h \in Handles, p \in BOOLEAN : Call(Vector_rebalance(h, p))
    \/ \E h \in Handles : Call(Vector_iter(h))
    \/ \E h \in Handles : Call(Vector_into_iter(h))
    \/ \E h \in Handles : Call(Vector_into_vec(h))

Spec == Init /\ [][Next]_vars

\* ------------------------------------------------- owners on threads (arc)
\* every handle in scope: the vectors and the locals of the calls in progress
Held(vs, ow) ==
    [i \in 1..9 |-> IF i <= 3 THEN vs[i] ELSE IF i <= 6 THEN ow[i - 3].v ELSE ow[i - 6].a]

\* the original vector and one clone of it for each thread
OwnersInit ==
    \E s \in Slices, c \in Configs :
        LET b == from_slice(<<>>, s, c[1]) IN
        /\ b.ok
        /\ heap = b.hp
        /\ vec = [h \in Handles |-> [b.v EXCEPT !.auto_rebalance = c[2]]]
        /\ shadow = [h \in Handles |-> s]
        /\ res = "Ok"
        /\ ret = 0
        /\ out = <<>>
        /\ prev = NoPre
        /\ own = [h \in Handles |-> NoLocal]
        /\ item = NoItem
        /\ nops = 0

\* one step of a thread: handles that went out of scope are dropped
Step(hp, vs, sh, ow, r) ==
    /\ res' = "Ok"
    /\ nops' = nops + 1
    /\ shadow' = sh
    /\ ret' = r
    /\ out' = <<>>
    /\ prev' = NoPre
    /\ own' = ow
    /\ item' = item
    /\ vec' = vs
    /\ heap' = Drop(hp, Held(vs, ow))

Idle(o) == Running /\ own[o].pc = "idle"

Owner_get(o, index) ==
    /\ Idle(o)
    /\ index < vec[o].len
    /\ Step(heap, vec, shadow, own, Node_get(heap, vec[o].root, index))

\* arr.insert(off, value) up to the new root; self is not yet written
Owner_insert(o, off, value) ==
    /\ Idle(o)
    /\ off <= vec[o].len
    /\ LET r == Node_insert(heap, vec[o].root, off, value, Rebalance_new(vec[o]))
           v == [vec[o] EXCEPT !.root = r.node, !.len = @ + 1]
       IN IF r.ok
          THEN Step(r.hp, vec, shadow,
                    [own EXCEPT ![o] = Local("built", v, NoVec, VecInsert(shadow[o], off, value), <<>>)], 0)
          ELSE Panic(r.hp)

Owner_update(o, off, value) ==
    /\ Idle(o)
    /\ off < vec[o].len
    /\ LET r == Node_update(heap, vec[o].root, off, value)
           v == [vec[o] EXCEPT !.root = r.node]
       IN Step(r.hp, vec, shadow,
               [own EXCEPT ![o] = Local("built", v, NoVec, VecSet(shadow[o], off, value), <<>>)], r.old)

Owner_remove(o, off) ==
    /\ Idle(o)
    /\ off < vec[o].len
    /\ LET r == Node_remove(heap, vec[o].root, off)
           v == [vec[o] EXCEPT !.root = r.node, !.len = @ - 1]
       IN Step(r.hp, vec, shadow,
               [own EXCEPT ![o] = Local("built", v, NoVec, VecRemove(shadow[o], off), <<>>)], r.old)

\* arr.split_off(off) with off < len, up to the two new roots
Owner_split_off(o, off) ==
    /\ Idle(o)
    /\ off < vec[o].len
    /\ LET r == Node_split_off(heap, vec[o].root, off, vec[o].len)
           v == [vec[o] EXCEPT !.root = r.node, !.len = @ - r.n]
           a == [vec[o] EXCEPT !.root = r.root, !.len = r.n]
       IN Step(r.hp, vec, shadow,
               [own EXCEPT ![o] = Local("splitting", v, a, Slice(shadow[o], 0, off),
                                        Slice(shadow[o], off, Len(shadow[o])))], 0)

\* arr.append(a) with the vector the split returned, up to the new root
Owner_append(o) ==
    /\ Running
    /\ own[o].pc = "split"
    /\ LET conv == from_slice(heap, IntoVec(heap, own[o].a), vec[o].leaf_cap)
           long == own[o].a.leaf_cap # vec[o].leaf_cap
           hp1 == IF long THEN conv.hp ELSE heap
           other == IF long THEN conv.v ELSE own[o].a
           root == newm(hp1, vec[o].root, other.root, vec[o].len)
           v == [vec[o] EXCEPT !.root = root.node, !.len = @ + other.len]
       IN IF long /\ ~conv.ok THEN Panic(conv.hp)
          ELSE Step(root.hp, vec, shadow,
                    [own EXCEPT ![o] = Local("built", v, other, shadow[o] \o own[o].ash, <<>>)], 0)

\* self.root = root; self.len = ..: the call returns, the old root is dropped
Owner_store(o) ==
    /\ Running
    /\ own[o].pc \in {"built", "splitting"}
    /\ Step(heap, [vec EXCEPT ![o] = own[o].v], [shadow EXCEPT ![o] = own[o].sh],
            [own EXCEPT ![o] = IF own[o].pc = "built" THEN NoLocal
                               ELSE Local("split", NoVec, own[o].a, <<>>, own[o].ash)],
            ret)

WithinOwners == \A h \in Handles : vec[h].len <= MaxLen /\ own[h].v.len <= MaxLen

OwnerCall(A) == nops < MaxSteps /\ A /\ WithinOwners'

NextOwners ==
    \/ \E o \in Owners, i \in 0..(MaxLen - 1) : OwnerCall(Owner_get(o, i))
    \/ \E o \in Owners, i \in 0..MaxLen, x \in Values : OwnerCall(Owner_insert(o, i, x))
    \/ \E o \in Owners, i \in 0..(MaxLen - 1), x \in Values : OwnerCall(Owner_update(o, i, x))
    \/ \E o \in Owners, i \in 0..(MaxLen - 1) : OwnerCall(Owner_remove(o, i))
    \/ \E o \in Owners, i \in 0..(MaxLen - 1) : OwnerCall(Owner_split_off(o, i))
    \/ \E o \in Owners : OwnerCall(Owner_append(o))
    \/ \E o \in Owners : OwnerCall(Owner_store(o))

SpecOwners == OwnersInit /\ [][NextOwners]_vars

\* ------------------------------------------- one owner, a deep tree (crud)
\* the leaf sizes a vector is switched to
LeafSizes == {8, 16}

\* the prepends that make the tree deep: the next ones reach the threshold
LoadOps == REBALANCE_THRESHOLD - 4

\* one vector, never cloned
CrudInit ==
    /\ \E s \in Slices, b \in LeafSizes, ar \in BOOLEAN :
        LET c == from_slice(<<>>, s, b) IN
        /\ heap = c.hp
        /\ vec = [h \in Handles |-> IF h = 1 THEN [c.v EXCEPT !.auto_rebalance = ar] ELSE NoVec]
        /\ shadow = [h \in Handles |-> IF h = 1 THEN s ELSE <<>>]
    /\ res = "Ok"
    /\ ret = 0
    /\ out = <<>>
    /\ prev = NoPre
    /\ own = [h \in Handles |-> NoLocal]
    /\ item = NoItem
    /\ nops = 0

\* for i in 0..n { arr.insert(0, val) }
Crud_prepend == nops < LoadOps /\ Vector_insert(1, 0, 1 + (nops % 2))

\* offsets at the ends of the vector and next to them
CrudOffsets(h) == {0, 2, 3, vec[h].len - 1, vec[h].len} \cap 0..vec[h].len

CrudCall(A) == LoadOps <= nops /\ nops < LoadOps + MaxCrudOps /\ A

NextCrud ==
    \/ Crud_prepend
    \/ \E h \in LiveHandles : \E o \in CrudOffsets(h), x \in Values : CrudCall(Vector_insert(h, o, x))
    \/ \E h \in LiveHandles : \E o \in CrudOffsets(h), x \in Values : CrudCall(Vector_insert_mut(h, o, x))
    \/ \E h \in LiveHandles : \E o \in CrudOffsets(h), x \in Values : CrudCall(Vector_update(h, o, x))
    \/ \E h \in LiveHandles : \E o \in CrudOffsets(h), x \in Values : CrudCall(Vector_update_mut(h, o, x))
    \/ \E h \in LiveHandles : \E o \in CrudOffsets(h) : CrudCall(Vector_remove(h, o))
    \/ \E h \in LiveHandles : \E o \in CrudOffsets(h) : CrudCall(Vector_remove_mut(h, o))
    \/ \E h \in LiveHandles, p \in BOOLEAN : CrudCall(Vector_rebalance(h, p))
    \/ \E h \in LiveHandles, b \in LeafSizes : CrudCall(Vector_set_leaf_size(h, b))

SpecCrud == CrudInit /\ [][NextCrud]_vars

\* ------------------------------------------- max_leaf_items on its own
ItemsInit ==
    /\ heap = <<>>
    /\ vec = [h \in Handles |-> NoVec]
    /\ shadow = [h \in Handles |-> <<>>]
    /\ res = "Ok"
    /\ ret = 0
    /\ out = <<>>
    /\ prev = NoPre
    /\ own = [h \in Handles |-> NoLocal]
    /\ item \in {Item(s, c) : s \in 1..MaxSize, c \in 1..MaxCap}
    /\ nops = 0

\* max_leaf_items::<T>(cap)
Items_max_leaf_items ==
    /\ nops = 0
    /\ ret' = max_leaf_items_of(item.size, item.cap)
    /\ nops' = 1
    /\ UNCHANGED <<heap, vec, shadow, res, out, prev, own, item>>

NextItems == Items_max_leaf_items

SpecItems == ItemsInit /\ [][NextItems]_vars

\* ------------------------------------ one vector of many leaves (builds)
\* the slices a vector is built from: k ones, then the largest value
BuildSlices == UNION {{[i \in 1..n |-> IF i <= k THEN 1 ELSE MaxVal] : k \in 0..n} : n \in 0..MaxBuild}

\* no vector yet
BuildInit ==
    /\ heap = <<>>
    /\ vec = [h \in Handles |-> NoVec]
    /\ shadow = [h \in Handles |-> <<>>]
    /\ res = "Ok"
    /\ ret = 0
    /\ out = <<>>
    /\ prev = NoPre
    /\ own = [h \in Handles |-> NoLocal]
    /\ item = NoItem
    /\ nops = 0

\* let arr = Vector::from_slice(&vals, Some(leaf_size))
Build_from_slice == nops = 0 /\ \E s \in BuildSlices, b \in LeafSizes : Vector_from_slice(s, b, TRUE)

\* offsets at the ends and in the middle of the vector
BuildOffsets(h) == {0, 1, vec[h].len \div 2, vec[h].len - 1} \cap 0..(vec[h].len - 1)

\* the removals that thin the leaves out, before any rebuild
Thinning == 1 <= nops /\ nops <= MaxThin /\ ~Live(vec[2])

Build_remove == Thinning /\ \E o \in BuildOffsets(1) : Vector_remove(1, o)

Build_remove_mut == Thinning /\ \E o \in BuildOffsets(1) : Vector_remove_mut(1, o)

\* arr = arr.rebalance(packed)
Build_rebalance == 1 <= nops /\ ~Live(vec[2]) /\ \E p \in BOOLEAN : Vector_rebalance(1, p)

NextBuild == Build_from_slice \/ Build_remove \/ Build_remove_mut \/ Build_rebalance

SpecBuild == BuildInit /\ [][NextBuild]_vars

\* ------------------------------------------ one full leaf (split-insert)
\* Vector::from_slice(data, Some(data.len() * size_of::<T>())): one leaf that
\* holds exactly max_items elements
SplitInit ==
    /\ \E data \in UNION {[1..n -> Values] : n \in 1..MaxLeaf} :
        LET c == from_slice(<<>>, data, Len(data) * SizeOfT) IN
        /\ heap = c.hp
        /\ vec = [h \in Handles |-> IF h = 1 THEN c.v ELSE NoVec]
        /\ shadow = [h \in Handles |-> IF h = 1 THEN data ELSE <<>>]
    /\ res = "Ok"
    /\ ret = 0
    /\ out = <<>>
    /\ prev = NoPre
    /\ own = [h \in Handles |-> NoLocal]
    /\ item = NoItem
    /\ nops = 0

\* root.insert(off, val, &rn): ret is the depth counter that comes back
Split_insert(off, val) ==
    /\ nops = 0
    /\ LET r == Node_insert(heap, vec[1].root, off, val, Rebalance_new(vec[1]))
       IN /\ r.ok
          /\ Return(r.hp, [vec EXCEPT ![1].root = r.node, ![1].len = @ + 1],
                    [shadow EXCEPT ![1] = VecInsert(@, off, val)], r.depth)

\* Ref::get_mut(&mut root).unwrap().insert_mut(off, val, &rn)
Split_insert_mut(off, val) ==
    /\ nops = 0
    /\ get_mut_ok(heap, vec, vec[1].root)
    /\ LET r == Node_insert_mut(heap, vec, vec[1].root, off, val, Rebalance_new(vec[1]))
       IN /\ ~r.panic
          /\ Return(r.hp, [vec EXCEPT ![1].len = @ + 1], [shadow EXCEPT ![1] = VecInsert(@, off, val)], r.depth)

NextSplit ==
    \/ \E off \in 0..vec[1].len, val \in Values : Split_insert(off, val)
    \/ \E off \in 0..vec[1].len, val \in Values : Split_insert_mut(off, val)

SpecSplit == SplitInit /\ [][NextSplit]_vars

\* ============================================================ properties
RECURSIVE CountElems(_, _)
\* number of elements stored in the leaves below n
CountElems(hp, n) ==
    IF hp[n].k = "M" THEN CountElems(hp, hp[n].left) + CountElems(hp, hp[n].right)
    ELSE Len(hp[n].data)

\* h is the only handle to its tree: every node below it has one handle
Sole(hp, vs, h) == \A n \in Reach(hp, vs[h].root) : StrongCount(hp, vs, n) = 1

RECURSIVE DescentPath(_, _, _)
\* the nodes below n that a positional call with offset off walks through
DescentPath(hp, n, off) ==
    IF hp[n].k = "M" THEN
        IF off < hp[n].weight THEN {hp[n].left} \cup DescentPath(hp, hp[n].left, off)
        ELSE {hp[n].right} \cup DescentPath(hp, hp[n].right, off - hp[n].weight)
    ELSE {}

HasEmptyLeaf(hp, n) == \E m \in Reach(hp, n) : hp[m].k = "Z" /\ Len(hp[m].data) = 0

\* ---- C1
\* C1: a vector that is the only handle to its tree shows, through len() and
\* get(i), exactly its shadow array; on such a vector every in-bounds insert,
\* insert_mut, update, update_mut, remove and remove_mut returns Ok, update and
\* update_mut return the shadow's prior element at the offset, and remove and
\* remove_mut return the removed element.
C1_Agrees == \A h \in LiveHandles : Sole(heap, vec, h) => Obs(heap, vec[h]) = ObsOf(Len(shadow[h]), shadow[h])

C1_Returns ==
    \A h \in LiveHandles : Sole(heap, vec, h) =>
        /\ \A o \in 0..(vec[h].len - 1), x \in Values :
            \/ res' = "Ok" /\ ret' = shadow[h][o + 1]
            \/ ~(\/ Vector_update(h, o, x) \/ Vector_update_mut(h, o, x)
                 \/ Vector_remove(h, o) \/ Vector_remove_mut(h, o))
        /\ \A o \in 0..vec[h].len, x \in Values :
            \/ res' = "Ok"
            \/ ~(Vector_insert(h, o, x) \/ Vector_insert_mut(h, o, x))

C1_ShadowRefinement == [](res # "Panic" => C1_Agrees) /\ [][C1_Returns]_vars

C1_Witness ==
    \E h \in LiveHandles :
        /\ Sole(heap, vec, h) /\ heap[vec[h].root].k = "M" /\ vec[h].len >= 2
        /\ nops >= 3 /\ res = "Ok" /\ ret # 0

\* ---- C2
\* a call with self = g that may write: everything but get, clone, rebalance
CallOn(g) ==
    \/ \E o \in 0..(MaxLen + 1), x \in Values :
        \/ Vector_insert(g, o, x) \/ Vector_insert_mut(g, o, x)
        \/ Vector_update(g, o, x) \/ Vector_update_mut(g, o, x)
        \/ Vector_remove(g, o) \/ Vector_remove_mut(g, o)
        \/ Vector_split_off(g, o)
    \/ \E k \in Handles : Vector_append(g, k)

\* C2 (persistence): a call that does not panic changes len() and get(i) of
\* no vector other than the one it is called on, however the two share nodes.
C2_Persistence ==
    [][\A g \in LiveHandles :
        (res' # "Panic" /\ Live(vec'[g]) /\ Obs(heap', vec'[g]) # Obs(heap, vec[g])) => CallOn(g)]_vars

\* two vectors that share nodes and have diverged
C2_Witness ==
    \E h, g \in LiveHandles :
        /\ vec[h].root # vec[g].root
        /\ Reach(heap, vec[h].root) \cap Reach(heap, vec[g].root) # {}
        /\ shadow[h] # shadow[g]
        /\ res = "Ok"

\* ---- C3
\* the step is a call of op with self = h, offset o (and any value)
InsertCall(h, o) == \E x \in Values : Vector_insert(h, o, x) \/ Vector_insert_mut(h, o, x)

ElementCall(h, o) ==
    \/ Vector_get(h, o) \/ Vector_remove(h, o) \/ Vector_remove_mut(h, o)
    \/ \E x \in Values : Vector_update(h, o, x) \/ Vector_update_mut(h, o, x)

C3_Step ==
    /\ \A h \in LiveHandles, o \in 0..(MaxLen + 1) :
        /\ (o > vec[h].len) = (res' = "IndexFail") \/ ~InsertCall(h, o)
        /\ (o >= vec[h].len) = (res' = "IndexFail") \/ ~ElementCall(h, o)
    /\ res' = "IndexFail" =>
        \A h \in Handles : vec'[h] = vec[h] /\ (Live(vec[h]) => Obs(heap', vec'[h]) = Obs(heap, vec[h]))

\* C3: insert and insert_mut return IndexFail exactly when off > len(); get,
\* update, update_mut, remove and remove_mut exactly when off >= len(), shared
\* tree or not; a call that returns IndexFail changes no len() and no element.
C3_BoundsErrors == [][C3_Step]_vars

\* an out-of-bounds call was answered while two vectors share a root
C3_Witness ==
    /\ res = "IndexFail"
    /\ \E h, g \in LiveHandles : h # g /\ vec[h].root = vec[g].root

\* ---- C4
\* some handle on the way to the target leaf is shared: the root handle of h
\* or a child handle on the descent path
PathShared(h, o) ==
    \E n \in {vec[h].root} \cup DescentPath(heap, vec[h].root, o) : StrongCount(heap, vec, n) > 1

InPlaceCall(h, o) ==
    \/ Vector_remove_mut(h, o)
    \/ \E x \in Values : Vector_insert_mut(h, o, x) \/ Vector_update_mut(h, o, x)

\* the nodes another vector reaches are as they were
OthersUntouched(h) ==
    \A g \in LiveHandles \ {h} : \A n \in Reach(heap, vec[g].root) : n \in DOMAIN heap' /\ heap'[n] = heap[n]

C4_Step ==
    \A h \in LiveHandles, o \in 0..MaxLen :
        \/ /\ (res' = "Panic") = PathShared(h, o)
           /\ res' = "Ok" => vec'[h].root = vec[h].root
           /\ OthersUntouched(h)
        \/ ~InPlaceCall(h, o)
        \/ o > vec[h].len
        \/ o = vec[h].len /\ ~(\E x \in Values : Vector_insert_mut(h, o, x))

\* C4: with an in-bounds offset, insert_mut, update_mut and remove_mut panic
\* exactly when the root handle or a child handle on the descent path has a
\* strong count above one; when they do not panic they work in place (the root
\* stays the same node), and in no case is a node that another vector reaches
\* changed.
C4_InPlacePanics == [][C4_Step]_vars

\* a panic although no two vectors share a root: a child handle was shared
C4_Witness ==
    /\ res = "Panic"
    /\ \A h, g \in LiveHandles : h # g => vec[h].root # vec[g].root

\* ---- C5
\* C5 (I1): after every call that returns normally, the len field of every
\* vector equals the number of elements stored in the leaves of its tree.
C5_LenIsCount == res # "Panic" => \A h \in LiveHandles : vec[h].len = CountElems(heap, vec[h].root)

\* a split or append result next to a tree with an empty leaf
C5_Witness ==
    /\ res = "Ok"
    /\ \E h, g \in LiveHandles :
        /\ h # g /\ vec[h].len >= 1 /\ vec[g].len >= 1
        /\ heap[vec[h].root].k = "M" /\ HasEmptyLeaf(heap, vec[h].root)

\* ---- C6
\* C6 (I2): after every call that returns normally, every internal node that a
\* live vector reaches has weight equal to the number of elements stored in
\* the leaves of its left subtree.
C6_WeightIsLeftCount ==
    res # "Panic" => \A n \in DOMAIN heap : heap[n].k = "M" => heap[n].weight = CountElems(heap, heap[n].left)

\* nested internal nodes with elements on both sides
C6_Witness ==
    /\ res = "Ok"
    /\ \E n \in DOMAIN heap :
        /\ heap[n].k = "M" /\ heap[heap[n].left].k = "M"
        /\ heap[n].weight >= 2 /\ CountElems(heap, heap[n].right) >= 1

\* ---- C7
Leaves(hp, n) == {m \in Reach(hp, n) : hp[m].k = "Z"}

\* C7 (I3): after every call that returns normally, every leaf of a vector
\* holds at most max_items(leaf_cap) elements, also when max_items is 1.
C7_LeafCapacity ==
    res # "Panic" =>
        \A h \in LiveHandles : \A m \in Leaves(heap, vec[h].root) :
            Len(heap[m].data) <= max_leaf_items(vec[h].leaf_cap)

\* ---- C8
C8_Step ==
    \A h \in LiveHandles, o \in 0..MaxLen :
        LET g == LowestFree
            pre == Obs(heap, vec[h])
        IN \/ o > vec[h].len
           \/ ~HasFree
           \/ ~Live(vec'[g])
           \/ /\ res' = "Ok"
              /\ Obs(heap', vec'[h]) = ObsOf(o, Slice(pre.elems, 0, o))
              /\ Obs(heap', vec'[g]) = ObsOf(pre.len - o, Slice(pre.elems, o, pre.len))
              /\ vec'[g].auto_rebalance = vec[h].auto_rebalance
              /\ vec'[g].leaf_cap = vec[h].leaf_cap
           \/ ~Vector_split_off(h, o)

C9_Step ==
    \A h, g \in LiveHandles :
        \/ h = g
        \/ Live(vec'[g])
        \/ /\ res' = "Ok"
           /\ Obs(heap', vec'[h]) =
                ObsOf(vec[h].len + vec[g].len, Obs(heap, vec[h]).elems \o Obs(heap, vec[g]).elems)
           /\ vec'[h].leaf_cap = vec[h].leaf_cap
           /\ vec'[h].auto_rebalance = vec[h].auto_rebalance
        \/ ~Vector_append(h, g)

\* C9: a.append(b) leaves a with a's former elements followed by b's, in
\* order, len() = a.len + b.len, for empty and non-empty a and b and for b of
\* another leaf_cap; a's leaf_cap and auto_rebalance flag stay.
C9_Append == [][C9_Step]_vars

\* two calls after new(): a constructed vector of another leaf_cap was appended to it
C9_Witness ==
    /\ res = "Ok" /\ nops = 2
    /\ vec[1].leaf_cap = LEAF_CAP /\ vec[1].len >= 2
    /\ heap[vec[1].root].k = "M"

\* ---- C10
C10_Step ==
    \A h \in LiveHandles :
        LET g == LowestFree
            pre == Obs(heap, vec[h])
        IN \/ ~HasFree
           \/ ~Live(vec'[g])
           \/ /\ res' = "Ok"
              /\ Obs(heap', vec'[g]) = pre
              /\ Obs(heap', vec'[h]) = pre
              /\ vec'[g].leaf_cap = vec[h].leaf_cap
              /\ vec'[g].auto_rebalance = vec[h].auto_rebalance
           \/ ~(\E p \in BOOLEAN : Vector_rebalance(h, p))

\* C10: rebalance(packed), packed or not, returns a vector with the len() and
\* the element at every index of self and with self's leaf_cap and
\* auto_rebalance flag, and self shows the same sequence afterwards; empty
\* leaves in the tree make no difference.
C10_Rebalance == [][C10_Step]_vars

\* a tree with an empty leaf and its packed copy, which has none and shares nothing
C10_Witness ==
    /\ res = "Ok" /\ nops <= 3
    /\ \E h, g \in LiveHandles :
        /\ h # g /\ vec[h].len >= 2
        /\ shadow[h] = shadow[g] /\ vec[h].leaf_cap = vec[g].leaf_cap
        /\ HasEmptyLeaf(heap, vec[h].root) /\ ~HasEmptyLeaf(heap, vec[g].root)
        /\ Reach(heap, vec[h].root) \cap Reach(heap, vec[g].root) = {}

\* ---- C11
C11_Step ==
    \A h \in LiveHandles :
        \/ res' = "Ok" /\ out' = Obs(heap, vec[h]).elems
        \/ ~(Vector_iter(h) \/ Vector_into_iter(h) \/ Vector_into_vec(h))

\* C11: on every vector the public calls reach, trees with empty leaves
\* included, iter(), into_iter() and the conversion into Vec yield exactly
\* len() elements and stop, the i-th of them being get(i).
C11_Iteration == [][C11_Step]_vars

\* an iteration ran over a tree that holds an empty leaf next to its elements
C11_Witness ==
    /\ res = "Ok" /\ Len(out) >= 2
    /\ \E h \in LiveHandles : out = shadow[h] /\ HasEmptyLeaf(heap, vec[h].root)

\* ---- C13
C13_Step ==
    \/ prev.op # "split_off"
    \/ ~Vector_append(prev.h, prev.g)
    \/ res' = "Ok" /\ Obs(heap', vec'[prev.h]) = prev.obs

\* C13 (split/append round trip): r = a.split_off(o) with o < a.len()
\* followed by a.append(r) leaves a with the len() and the element at every
\* index it had before the split.
C13_SplitAppend == [][C13_Step]_vars

\* the halves of a tree of several leaves, split inside its left subtree, were joined again
C13_Witness ==
    /\ res = "Ok" /\ prev.op = "append" /\ prev.off >= 1
    /\ heap[heap[vec[prev.h].root].left].k = "M"
    /\ HasEmptyLeaf(heap, heap[vec[prev.h].root].left)

\* ---- C14
C14_Step ==
    /\ \/ prev.op # "remove"
       \/ ~Vector_insert(prev.h, prev.off, ret)
       \/ res' = "Ok" /\ Obs(heap', vec'[prev.h]) = prev.obs
    /\ \/ prev.op # "remove_mut"
       \/ ~Sole(heap, vec, prev.h)
       \/ ~Vector_insert_mut(prev.h, prev.off, ret)
       \/ res' = "Ok" /\ Obs(heap', vec'[prev.h]) = prev.obs

\* C14 (remove/insert round trip): remove(i) with i < len() returning v_old,
\* followed by insert(i, v_old), restores len() and the element at every
\* index; so does remove_mut followed by insert_mut on an unshared vector.
C14_RemoveInsert == [][C14_Step]_vars

\* an element was taken out of a tree of several leaves in place and put back at its index
C14_Witness ==
    /\ res = "Ok" /\ prev.op = "insert_mut" /\ prev.obs.len >= 2
    /\ heap[vec[prev.h].root].k = "M"
    /\ \E g \in LiveHandles \ {prev.h} : vec[g].len >= 1

\* ---- C15
\* C15 (independent owners): threads that each own a clone of one vector and
\* apply reads and copy-on-write calls (insert, update, remove, split_off
\* followed by append) see, under every interleaving of their steps, exactly
\* their own calls applied to their private reference array; no call panics.
C15_IndependentOwners ==
    /\ res # "Panic"
    /\ \A h \in Handles : Obs(heap, vec[h]) = ObsOf(Len(shadow[h]), shadow[h])

\* one owner is between building and storing a new version while the other
\* has stored one, and the two still share nodes
C15_Witness ==
    /\ own[1].pc = "built" /\ own[2].pc = "idle"
    /\ shadow[2] # shadow[3] /\ own[1].sh # shadow[3] /\ own[1].sh # shadow[2]
    /\ Reach(heap, own[1].v.root) \cap Reach(heap, vec[2].root) # {}

\* ---- C12
C12_Step ==
    \A s \in Slices, c \in Configs :
        \/ ~HasFree
        \/ ~Vector_from_slice(s, c[1], c[2])
        \/ /\ res' = "Ok"
           /\ Obs(heap', vec'[LowestFree]) = ObsOf(Len(s), s)
           /\ IntoVec(heap', vec'[LowestFree]) = s

\* C12 (round trip): for every slice s and every leaf size in bytes,
\* from_slice(s, Some(leaf_size)) completes, has len() = |s| and get(i) = s[i]
\* for every i, and converts back into a Vec equal to s.
C12_RoundTrip == [][C12_Step]_vars

\* ---- C16
C16_Step ==
    \A h \in LiveHandles, o \in 0..(MaxLen + 1) :
        \/ o < vec[h].len
        \/ res' = "IndexFail"
        \/ ~Vector_split_off(h, o)

\* C16: split_off(off) returns an error for every off >= len().
C16_SplitOffErrors == [][C16_Step]_vars

\* ---- C17
RECURSIVE TreeDepth(_, _)
\* the number of internal nodes on the longest way down from n
TreeDepth(hp, n) ==
    IF hp[n].k = "M" THEN
        LET l == TreeDepth(hp, hp[n].left)
            r == TreeDepth(hp, hp[n].right)
        IN 1 + (IF l < r THEN r ELSE l)
    ELSE 0

\* vector 1 was never cloned and no rebalance() result shares its leaves
Unshared == \A g \in Handles \ {1} : ~Live(vec[g])

C17_Step ==
    Unshared =>
        \A o \in CrudOffsets(1) :
            \/ res' = "Ok"
            \/ ~(\/ \E x \in Values : Vector_insert_mut(1, o, x)
                 \/ o < vec[1].len /\ \E x \in Values : Vector_update_mut(1, o, x)
                 \/ o < vec[1].len /\ Vector_remove_mut(1, o))

\* C17: a vector that was never cloned and shares no node with a rebalance()
\* result keeps, through any sequence of in-bounds insert, update, remove,
\* insert_mut, update_mut and remove_mut and through the rebuilds they trigger,
\* every node of its tree referenced by exactly one handle, and an in-bounds
\* in-place call on it never panics.
C17_MixedCalls == [](Unshared => res # "Panic" /\ Sole(heap, vec, 1)) /\ [][C17_Step]_vars

\* an in-place removal from a tree that an insert had rebuilt
C17_Witness ==
    /\ Unshared /\ res = "Ok" /\ prev.op = "remove_mut"
    /\ vec[1].auto_rebalance /\ vec[1].len >= LoadOps
    /\ TreeDepth(heap, vec[1].root) < 8

\* ---- C18
C18_Step ==
    \A h \in LiveHandles, b \in LeafSizes :
        \/ vec[h].len = 0
        \/ ~Vector_set_leaf_size(h, b)
        \/ \A m \in Leaves(heap', vec'[h].root) : Len(heap'[m].data) <= max_leaf_items(b)

\* C18 (I3 after set_leaf_size): after set_leaf_size(b) on a vector that holds
\* elements, every leaf of its tree holds at most max_items(b) elements.
C18_LeafSizeSet == [][C18_Step]_vars

\* ---- C19
\* the least q with a <= q * b
CeilDiv(a, b) == CHOOSE q \in 0..a : a <= q * b /\ \A p \in 0..(q - 1) : a > p * b

RECURSIVE PathDepth(_, _, _, _)
\* the depth of the place an insert at off goes to, counted as Node::insert
\* counts it: one for the leaf, one more when the leaf is full and splits, and
\* one for every internal node above it
PathDepth(hp, n, off, cap) ==
    CASE hp[n].k = "Z" -> IF Len(hp[n].data) < max_leaf_items(cap) THEN 1 ELSE 2
      [] hp[n].k = "M" /\ off < hp[n].weight -> 1 + PathDepth(hp, hp[n].left, off, cap)
      [] OTHER -> 1 + PathDepth(hp, hp[n].right, off - hp[n].weight, cap)

\* d >= 30 and d > 3 * log2(max(1, n_leaves)), that is 2^d > max(1, n_leaves)^3
Due(d, n_leaves) ==
    LET m == IF n_leaves < 1 THEN 1 ELSE n_leaves
    IN d >= 30 /\ Halve(m * m * m, d) = 0

\* the tree of h was rebuilt: it came out shallower than it went in
Rebuilt(h) == TreeDepth(heap', vec'[h].root) < TreeDepth(heap, vec[h].root)

C20_Step ==
    /\ \A h \in LiveHandles : \A o \in CrudOffsets(h), x \in Values :
        \/ ~(Vector_insert(h, o, x) \/ Vector_insert_mut(h, o, x))
        \/ res' # "Ok"
        \/ Rebuilt(h) = (/\ vec[h].auto_rebalance
                         /\ Due(PathDepth(heap, vec[h].root, o, vec[h].leaf_cap),
                                vec[h].len \div max_leaf_items(vec[h].leaf_cap)))
    /\ \A h \in LiveHandles, p \in BOOLEAN :
        \/ ~HasFree
        \/ ~Vector_rebalance(h, p)
        \/ res' # "Ok"
        \/ TreeDepth(heap', vec'[LowestFree].root)
               = Log2Ceil(Cardinality(Leaves(heap', vec'[LowestFree].root)))

\* C20: an insert or insert_mut rebuilds the tree exactly when auto_rebalance
\* is set and the depth d of the insertion satisfies d >= 30 and
\* d > 3 * log2(max(1, n_leaves)), n_leaves = len / max_items(leaf_cap) with
\* len before the insert; without auto_rebalance neither of them rebuilds; and
\* rebalance() always returns a rebuilt tree.
C20_Trigger == [][C20_Step]_vars

\* ---- C21
\* the contents of the leaves below n, from left to right
LeafDatas(hp, n) ==
    LET leafs == CollectLoop(hp, n, <<>>, <<>>) IN [i \in 1..Len(leafs) |-> hp[leafs[i]].data]

\* the call returned the vector g whose tree was built from leaves holding datas
BuiltFrom(g, datas) ==
    /\ res' = "Ok"
    /\ LeafDatas(heap', vec'[g].root) = (IF Len(datas) = 0 THEN << <<>> >> ELSE datas)
    /\ TreeDepth(heap', vec'[g].root) = Log2Ceil(Len(datas))

C21_Step ==
    /\ \A s \in BuildSlices, b \in LeafSizes :
        \/ ~(nops = 0 /\ Vector_from_slice(s, b, TRUE))
        \/ BuiltFrom(1, Chunks(s, max_leaf_items(b)))
    /\ \/ ~Vector_rebalance(1, FALSE)
       \/ /\ BuiltFrom(2, LeafDatas(heap, vec[1].root))
          /\ CollectLoop(heap', vec'[2].root, <<>>, <<>>) = CollectLoop(heap, vec[1].root, <<>>, <<>>)
    /\ \/ ~Vector_rebalance(1, TRUE)
       \/ BuiltFrom(2, PackLoop(heap, CollectLoop(heap, vec[1].root, <<>>, <<>>), 1, <<>>,
                                max_leaf_items(vec[1].leaf_cap)))

\* C21: the bottom-up build of from_slice and of the rebuild, given n leaves
\* and the depth ceil(log2(n)), uses up every leaf (the call returns Ok),
\* keeps the leaves in their order from left to right, and gives a tree whose
\* longest way down has exactly ceil(log2(n)) internal nodes; no leaves give
\* one empty leaf.
C21_BottomUpBuild == [][C21_Step]_vars

\* a rebuild of nine leaves, one more than fills depth three
C21_Witness ==
    /\ res = "Ok" /\ Live(vec[2])
    /\ Cardinality(Leaves(heap, vec[2].root)) = 9
    /\ TreeDepth(heap, vec[2].root) = 4
    /\ TreeDepth(heap, heap[vec[2].root].right) = 0

\* ---- C22
\* every leaf of v but the last is full, and the last one is not empty
Packed(hp, v) ==
    LET d == LeafDatas(hp, v.root)
        m == max_leaf_items(v.leaf_cap)
    IN /\ \A i \in 1..(Len(d) - 1) : Len(d[i]) = m
       /\ IF v.len = 0 THEN d = << <<>> >> ELSE Len(d[Len(d)]) >= 1
       /\ Len(d) = (IF v.len = 0 THEN 1 ELSE CeilDiv(v.len, m))

C22_Step ==
    \A h \in LiveHandles :
        \/ ~Vector_rebalance(h, TRUE)
        \/ res' = "Ok" /\ Packed(heap', vec'[LowestFree])

\* C22: after rebalance(packed = true) every leaf but the last holds exactly
\* max_items(leaf_cap) elements and the last one holds at least one (an empty
\* vector becomes one empty leaf), so that the tree has
\* max(1, ceil(len / max_items)) leaves.
C22_PackedRebuild == [][C22_Step]_vars

\* ---- C23
\* the two halves of a full leaf, and where val goes
SplitHalves(data, off, val) ==
    LET m == Len(data) \div 2
        ld == IF Len(data) = 1 THEN data ELSE SubSeq(data, 1, m)
        rd == IF Len(data) = 1 THEN <<>> ELSE SubSeq(data, m + 1, Len(data))
    IN IF off < Len(ld)
       THEN [left |-> SubSeq(ld, 1, off) \o <<val>> \o SubSeq(ld, off + 1, Len(ld)), right |-> rd]
       ELSE [left |-> ld,
             right |-> SubSeq(rd, 1, off - Len(ld)) \o <<val>> \o SubSeq(rd, off - Len(ld) + 1, Len(rd))]

C23_Step ==
    \A off \in 0..vec[1].len, val \in Values :
        \/ ~(Split_insert(off, val) \/ Split_insert_mut(off, val))
        \/ LET data == heap[vec[1].root].data
               n == heap'[vec'[1].root]
               halves == SplitHalves(data, off, val)
           IN /\ n.k = "M" /\ heap'[n.left].k = "Z" /\ heap'[n.right].k = "Z"
              /\ heap'[n.left].data = halves.left
              /\ heap'[n.right].data = halves.right
              /\ n.weight = Len(heap'[n.left].data)
              /\ heap'[n.left].data \o heap'[n.right].data
                    = SubSeq(data, 1, off) \o <<val>> \o SubSeq(data, off + 1, Len(data))
              /\ ret' = 2

\* C23: an insert of val at off into a leaf that holds max_items elements
\* puts an internal node with two leaves in its place: the leaves are
\* data[0..m] and data[m..], m = len/2 (a leaf of one element gives data and
\* nothing), with val inserted into the left one when off is below its size
\* and into the right one otherwise; the weight is the final size of the left
\* leaf, the two leaves together are data with val at off, and the depth
\* counter that comes back is 2.
C23_SplitInsert == [][C23_Step]_vars

\* an insert at the end of the left half went into the right leaf
C23_Witness ==
    /\ nops = 1 /\ ret = 2 /\ vec[1].len = MaxLeaf + 1
    /\ heap[vec[1].root].k = "M"
    /\ heap[vec[1].root].weight = MaxLeaf \div 2
    /\ Len(heap[heap[vec[1].root].right].data) = MaxLeaf - (MaxLeaf \div 2) + 1
    /\ heap[heap[vec[1].root].right].data[1] # shadow[1][MaxLeaf \div 2]

\* ---- C24
RECURSIVE InsertDescent(_, _, _, _, _, _)
\* the insert at off below n of hp gave n2 of hp2: at every internal node on the
\* way the side taken is the left one when off is below the weight (or equal
\* to it, when incl), the weight is raised there and kept on the right
InsertDescent(hp, n, hp2, n2, off, incl) ==
    IF hp[n].k = "Z" THEN TRUE
    ELSE
        LET w == hp[n].weight IN
        /\ hp2[n2].k = "M"
        /\ IF off < w \/ (incl /\ off = w)
           THEN /\ hp2[n2].weight = w + 1
                /\ CountElems(hp2, hp2[n2].left) = CountElems(hp, hp[n].left) + 1
                /\ CountElems(hp2, hp2[n2].right) = CountElems(hp, hp[n].right)
                /\ InsertDescent(hp, hp[n].left, hp2, hp2[n2].left, off, incl)
           ELSE /\ hp2[n2].weight = w
                /\ CountElems(hp2, hp2[n2].left) = CountElems(hp, hp[n].left)
                /\ CountElems(hp2, hp2[n2].right) = CountElems(hp, hp[n].right) + 1
                /\ InsertDescent(hp, hp[n].right, hp2, hp2[n2].right, off - w, incl)

\* the step is an insert of x at o that returned Ok (which shows in the shadow)
C24_StepOf(incl) ==
    \A h \in LiveHandles : \A o \in 0..vec[h].len, x \in Values :
        \/ res' # "Ok"
        \/ shadow'[h] # VecInsert(shadow[h], o, x)
        \/ ~(Vector_insert(h, o, x) \/ Vector_insert_mut(h, o, x))
        \/ InsertDescent(heap, vec[h].root, heap', vec'[h].root, o, incl)

\* C24: at an internal node insert and insert_mut go left with o and raise the
\* weight by one when o <= weight, and go right with o - weight and keep the
\* weight when o > weight: an insert at o = weight lands in the left subtree.
C24_InsertDescent == [][C24_StepOf(TRUE)]_vars

\* C24, amended: at an internal node insert and insert_mut go left with o and
\* raise the weight by one when o < weight, and go right with o - weight and
\* keep the weight when o >= weight: an insert at o = weight lands in the
\* right subtree.
C24_InsertDescentStrict == [][C24_StepOf(FALSE)]_vars

\* an insert at the weight of the root went into the right subtree and split its leaf
C24_Witness ==
    /\ res = "Ok" /\ nops = 2
    /\ \E h \in LiveHandles :
        /\ vec[h].len = 3 /\ heap[vec[h].root].k = "M"
        /\ heap[vec[h].root].weight = 1
        /\ heap[heap[vec[h].root].left].k = "Z"
        /\ heap[heap[vec[h].root].right].k = "M"
        /\ heap[heap[vec[h].root].right].weight = 2

\* ---- C25
RECURSIVE CountLeaves(_, _)
\* number of leaves below n
CountLeaves(hp, n) ==
    IF hp[n].k = "M" THEN CountLeaves(hp, hp[n].left) + CountLeaves(hp, hp[n].right) ELSE 1

RECURSIVE Pow2(_)
Pow2(d) == IF d = 0 THEN 1 ELSE 2 * Pow2(d - 1)

\* the roots of the trees a build has just made: the vector from_slice
\* returned, before any other call, and the vector rebalance returned
BuiltRoots ==
    {vec[h].root : h \in {g \in LiveHandles : g = 2 \/ nops = 1}}

RECURSIVE HalfSplit(_, _, _)
\* at every internal node below n the left subtree holds half (rounded down)
\* of the leaves that were left to place: those below the node, with or
\* without the after leaves that follow them
HalfSplit(hp, n, after) ==
    IF hp[n].k = "Z" THEN TRUE
    ELSE
        LET l == CountLeaves(hp, hp[n].left)
            r == CountLeaves(hp, hp[n].right)
        IN /\ l = (l + r) \div 2 \/ l = (l + r + after) \div 2
           /\ HalfSplit(hp, hp[n].left, after + r)
           /\ HalfSplit(hp, hp[n].right, after)

RECURSIVE LeftFull(_, _)
\* at every internal node below n, of height d, the left subtree has depth
\* d - 1 and 2^(d-1) leaves and the right one has 1 to 2^(d-1) leaves
LeftFull(hp, n) ==
    IF hp[n].k = "Z" THEN TRUE
    ELSE
        LET d == TreeDepth(hp, n)
            r == CountLeaves(hp, hp[n].right)
        IN /\ TreeDepth(hp, hp[n].left) = d - 1
           /\ CountLeaves(hp, hp[n].left) = Pow2(d - 1)
           /\ 1 <= r /\ r <= Pow2(d - 1)
           /\ LeftFull(hp, hp[n].left)
           /\ LeftFull(hp, hp[n].right)

\* C25: in a tree that was just built, at every internal node the left
\* subtree holds floor(k/2) of the k leaves that were left to place when the
\* node was built.
C25_HalfSplit == res = "Ok" => \A n \in BuiltRoots : HalfSplit(heap, n, 0)

\* C25, amended: in a tree that was just built, at every internal node, of
\* height d, the left subtree is full: it has depth d - 1 and holds 2^(d-1)
\* leaves, as many as the leaves left to place allow; the right subtree holds
\* the 1 to 2^(d-1) leaves that follow.
C25_LeftFull == res = "Ok" => \A n \in BuiltRoots : LeftFull(heap, n)

\* a tree rebuilt from five leaves: four to the left of the root, one to its right
C25_Witness ==
    /\ res = "Ok" /\ Live(vec[2])
    /\ heap[vec[2].root].k = "M"
    /\ CountLeaves(heap, heap[vec[2].root].left) = 4
    /\ CountLeaves(heap, heap[vec[2].root].right) = 1

\* ---- C26
DepthOf(h) == TreeDepth(heap, vec[h].root)

DepthAfter(h) == TreeDepth(heap', vec'[h].root)

\* no update, removal or split_off made the tree of h deeper, and no split_off
\* or rebalance of h returned a tree deeper than that of h
C26_Others ==
    \A h \in LiveHandles :
        /\ \/ ~Live(vec'[h])
           \/ DepthAfter(h) <= DepthOf(h)
           \/ /\ \A o \in 0..MaxLen, x \in Values : ~(Vector_update(h, o, x) \/ Vector_update_mut(h, o, x))
              /\ \A o \in 0..MaxLen : ~(Vector_remove(h, o) \/ Vector_remove_mut(h, o))
              /\ \A o \in 0..(MaxLen + 1) : ~Vector_split_off(h, o)
        /\ \/ ~HasFree
           \/ ~Live(vec'[LowestFree])
           \/ TreeDepth(heap', vec'[LowestFree].root) <= DepthOf(h)
           \/ /\ \A o \in 0..(MaxLen + 1) : ~Vector_split_off(h, o)
              /\ \A p \in BOOLEAN : ~Vector_rebalance(h, p)

\* h.append(g) gave a tree no deeper than the deeper of the two
C26_AppendKeeps ==
    \A h, g \in LiveHandles :
        \/ h = g
        \/ Live(vec'[g])
        \/ res' # "Ok"
        \/ DepthAfter(h) <= (IF DepthOf(h) < DepthOf(g) THEN DepthOf(g) ELSE DepthOf(h))
        \/ ~Vector_append(h, g)

\* h.append(g) gave a tree deeper than that of h: by one more than the deeper
\* of the two when g is joined as it is
C26_AppendAdds ==
    \A h, g \in LiveHandles :
        \/ h = g
        \/ Live(vec'[g])
        \/ res' # "Ok"
        \/ /\ DepthAfter(h) > DepthOf(h)
           /\ vec[g].leaf_cap = vec[h].leaf_cap =>
                DepthAfter(h) = 1 + (IF DepthOf(h) < DepthOf(g) THEN DepthOf(g) ELSE DepthOf(h))
        \/ ~Vector_append(h, g)

\* C26: only insert and insert_mut make a tree deeper: update, update_mut,
\* remove, remove_mut, split_off (both vectors), append and rebalance give
\* trees no deeper than the deepest tree they were given.
C26_OnlyInsertDeepens == [][C26_Others /\ C26_AppendKeeps]_vars

\* C26, amended: only insert, insert_mut and append make a tree deeper:
\* update, update_mut, remove, remove_mut, split_off (both vectors) and
\* rebalance give trees no deeper than the tree they were given; append always
\* gives a deeper tree than self's, one deeper than the deeper of the two
\* trees when other has self's leaf_cap.
C26_InsertAppendDeepen == [][C26_Others /\ C26_AppendAdds]_vars

\* what split_off took away was appended again, and the tree is deeper than before the two calls
C26_Witness ==
    /\ res = "Ok" /\ prev.op = "append"
    /\ TreeDepth(heap, vec[prev.h].root) >= 2

\* ---- C27
RECURSIVE TreeOf(_, _)
\* the tree below n as a value: weights, arrangement and leaf contents
TreeOf(hp, n) ==
    IF hp[n].k = "M"
    THEN [w |-> hp[n].weight, l |-> TreeOf(hp, hp[n].left), r |-> TreeOf(hp, hp[n].right)]
    ELSE [d |-> hp[n].data]

\* data without the element at off
Without(data, off) == SubSeq(data, 1, off) \o SubSeq(data, off + 2, Len(data))

RECURSIVE ShapeKept(_, _, _, _, _, _, _)
\* n2 of hp2 is n of hp but for the leaf that holds off, which has x at off
\* (dw = 0) or has lost the element at off (dw = 1), and for dw taken from
\* every weight where the way goes left
ShapeKept(hp, n, hp2, n2, off, dw, x) ==
    CASE hp[n].k = "Z" ->
            /\ hp2[n2].k = "Z"
            /\ hp2[n2].data = (IF dw = 1 THEN Without(hp[n].data, off) ELSE [hp[n].data EXCEPT ![off + 1] = x])
      [] hp2[n2].k = "Z" -> FALSE
      [] off < hp[n].weight ->
            /\ hp2[n2].weight = hp[n].weight - dw
            /\ TreeOf(hp2, hp2[n2].right) = TreeOf(hp, hp[n].right)
            /\ ShapeKept(hp, hp[n].left, hp2, hp2[n2].left, off, dw, x)
      [] OTHER ->
            /\ hp2[n2].weight = hp[n].weight
            /\ TreeOf(hp2, hp2[n2].left) = TreeOf(hp, hp[n].left)
            /\ ShapeKept(hp, hp[n].right, hp2, hp2[n2].right, off - hp[n].weight, dw, x)

C27_Step ==
    \A h \in LiveHandles : \A o \in CrudOffsets(h) :
        \/ o >= vec[h].len
        \/ res' # "Ok"
        \/ /\ \A x \in Values :
                \/ shadow'[h] # [shadow[h] EXCEPT ![o + 1] = x]
                \/ ~(Vector_update(h, o, x) \/ Vector_update_mut(h, o, x))
                \/ ShapeKept(heap, vec[h].root, heap', vec'[h].root, o, 0, x)
           /\ \/ shadow'[h] # Without(shadow[h], o)
              \/ ~(Vector_remove(h, o) \/ Vector_remove_mut(h, o))
              \/ ShapeKept(heap, vec[h].root, heap', vec'[h].root, o, 1, 0)

\* C27: update, update_mut, remove and remove_mut never rebuild the tree and
\* keep its arrangement of internal nodes and leaves; update changes no
\* weight, remove lowers by one the weight of every internal node where it
\* went left and no other; the contents of the target leaf alone change, and
\* a leaf that remove empties stays in the tree.
C27_ShapeKept == [][C27_Step]_vars

\* a removal at the end of a deep tree of two-element leaves emptied the last leaf
C27_Witness ==
    /\ res = "Ok" /\ prev.op \in {"remove", "remove_mut"} /\ prev.off = prev.obs.len - 1
    /\ nops = LoadOps + 1
    /\ vec[1].leaf_cap = 16
    /\ HasEmptyLeaf(heap, vec[1].root)

\* ---- C28
\* the nodes a call on h with offset o walks through, the root included
PathNodes(h, o) == {vec[h].root} \cup DescentPath(heap, vec[h].root, o)

RECURSIVE OffPathSame(_, _, _, _, _)
\* n2 of hp2 took the place of n of hp: down to the leaf that holds off every
\* node on the way is a new one and the child off the way is the node it was
OffPathSame(hp, n, hp2, n2, off) ==
    /\ n2 \notin DOMAIN hp
    /\ CASE hp[n].k = "Z" -> TRUE
         [] hp2[n2].k = "Z" -> FALSE
         [] off < hp[n].weight ->
                /\ hp2[n2].right = hp[n].right
                /\ OffPathSame(hp, hp[n].left, hp2, hp2[n2].left, off)
         [] OTHER ->
                /\ hp2[n2].left = hp[n].left
                /\ OffPathSame(hp, hp[n].right, hp2, hp2[n2].right, off - hp[n].weight)

\* the copy-on-write call on h with offset o made extra new nodes besides one
\* for each node on the way, hung the old subtrees off the new way and left
\* every node there was as it was
PathCopied(h, o, extra) ==
    /\ Cardinality(DOMAIN heap' \ DOMAIN heap) = Cardinality(PathNodes(h, o)) + extra
    /\ OffPathSame(heap, vec[h].root, heap', vec'[h].root, o)
    /\ \A n \in DOMAIN heap \cap DOMAIN heap' : heap'[n] = heap[n]
    /\ \A g \in LiveHandles \ {h} : Reach(heap, vec[g].root) \subseteq DOMAIN heap'

\* the leaf that an insert on h at o reaches is full
SplitsAt(h, o) ==
    \E m \in PathNodes(h, o) :
        heap[m].k = "Z" /\ Len(heap[m].data) >= max_leaf_items(vec[h].leaf_cap)

C28_Step ==
    \A h \in LiveHandles : \A o \in 0..vec[h].len :
        \/ res' # "Ok"
        \/ /\ \A x \in Values :
                /\ \/ shadow'[h] # VecInsert(shadow[h], o, x)
                   \/ ~Vector_insert(h, o, x)
                   \/ PathCopied(h, o, IF SplitsAt(h, o) THEN 2 ELSE 0)
                /\ \/ o >= vec[h].len
                   \/ shadow'[h] # VecSet(shadow[h], o, x)
                   \/ ~Vector_update(h, o, x)
                   \/ PathCopied(h, o, 0)
           /\ \/ o >= vec[h].len
              \/ shadow'[h] # VecRemove(shadow[h], o)
              \/ ~Vector_remove(h, o)
              \/ PathCopied(h, o, 0)

\* C28: a copy-on-write insert, update or remove that rebuilds nothing
\* allocates new nodes only for the nodes on the way from the root to the
\* target leaf (and two more for the leaves of a split-insert); every subtree
\* off that way is, in the new version, the very node it was, and no node of
\* the prior version is modified.
C28_StructuralSharing == [][C28_Step]_vars

\* a clone and its original after a copy-on-write call on one of them: below
\* different roots the right child is one and the same node, the left are two
C28_Witness ==
    /\ res = "Ok"
    /\ \E h, g \in LiveHandles :
        /\ vec[h].root # vec[g].root
        /\ heap[vec[h].root].k = "M" /\ heap[vec[g].root].k = "M"
        /\ heap[vec[h].root].right = heap[vec[g].root].right
        /\ heap[vec[h].root].left # heap[vec[g].root].left
        /\ StrongCount(heap, vec, heap[vec[h].root].right) = 2

\* ---- C29
\* the trees of self (h) and of the returned vector (g) after h.split_off(o)
C29_Apart(h, g) ==
    /\ Reach(heap', vec'[h].root) \cap Reach(heap', vec'[g].root) = {}
    /\ Sole(heap', vec', h)
    /\ Sole(heap', vec', g)

\* the vectors other than h are what they were, node by node
C29_OthersKept(h) ==
    \A c \in LiveHandles \ {h} :
        /\ vec'[c] = vec[c]
        /\ \A n \in Reach(heap, vec[c].root) : n \in DOMAIN heap' /\ heap'[n] = heap[n]

C29_Step ==
    \A h \in LiveHandles, o \in 0..MaxLen :
        \/ ~HasFree
        \/ o > vec[h].len
        \/ ~Live(vec'[LowestFree])
        \/ ~Vector_split_off(h, o)
        \/ /\ res' = "Ok"
           /\ Sole(heap, vec, h) => C29_Apart(h, LowestFree)
           /\ C29_OthersKept(h)
           /\ \A n \in DOMAIN heap \cap DOMAIN heap' : heap'[n] = heap[n]

\* the in-place calls on k
C29_InPlaceCall(k) ==
    \/ \E o \in 0..(MaxLen + 1), x \in Values : Vector_insert_mut(k, o, x)
    \/ \E o \in 0..MaxLen, x \in Values : Vector_update_mut(k, o, x)
    \/ \E o \in 0..MaxLen : Vector_remove_mut(k, o)

\* right after a split_off that left both trees with one handle to each node,
\* no in-place call on either vector panics
C29_InPlace ==
    \/ prev.op # "split_off"
    \/ res' # "Panic"
    \/ ~(Sole(heap, vec, prev.h) /\ Sole(heap, vec, prev.g))
    \/ ~(C29_InPlaceCall(prev.h) \/ C29_InPlaceCall(prev.g))

\* C29: after v.split_off(o) on a vector with one handle to each of its nodes
\* no node is reachable from both v and the returned vector and each node of
\* either has one handle, so that in-place calls on either succeed; when v
\* shares nodes with a clone, the clone's tree is not modified, and the nodes
\* the two results have in common with it are nodes left as they were.
C29_SplitOffApart == [][C29_Step /\ C29_InPlace]_vars

\* a split_off in the middle of a tree of several leaves, none of them shared
C29_Witness ==
    /\ res = "Ok" /\ prev.op = "split_off"
    /\ 0 < prev.off /\ prev.off < prev.obs.len
    /\ heap[vec[prev.h].root].k = "M" /\ heap[vec[prev.g].root].k = "M"
    /\ Sole(heap, vec, prev.h) /\ Sole(heap, vec, prev.g)
    /\ Reach(heap, vec[prev.h].root) \cap Reach(heap, vec[prev.g].root) = {}

\* ---- C30
\* nothing of what there was before the call has changed: no node, no vector
C30_Untouched ==
    /\ \A n \in DOMAIN heap : n \in DOMAIN heap' /\ heap'[n] = heap[n]
    /\ vec' = vec

C30_Step ==
    \A h \in LiveHandles :
        \/ res' # "Panic"
        \/ C30_Untouched
        \/ ~C29_InPlaceCall(h)

\* C30: when insert_mut, update_mut or remove_mut panics on a shared node of
\* the way down, no node of the tree has been modified (every weight and the
\* contents of every leaf are what they were before the call) and len is
\* unchanged.
C30_PanicAtomic == [][C30_Step]_vars

====
